---- MODULE Spec2Model ----
(***************************************************************************)
(* Graphics backend subsystem of mkui: the image render dispatcher         *)
(* (graphics/mod.rs), the Kitty encoder (graphics/kitty.rs), the Sixel and *)
(* block encoders and the framebuffer writer.  Everything a call writes is *)
(* modelled byte for byte: a string is a sequence of byte values 0..255.   *)
(***************************************************************************)
EXTENDS Integers, Sequences, FiniteSets, TLC

VARIABLES
    backend,                \* ImageRenderer.backend
    in_tmux,                \* ImageRenderer.in_tmux
    line_buffer,            \* ImageRenderer.line_buffer
    escape_buffer,          \* ImageRenderer.escape_buffer
    animation_image_id,     \* ImageRenderer.animation_image_id (None = -1)
    animation_initialized,  \* ImageRenderer.animation_initialized
    tmux_pane_offset,       \* ImageRenderer.tmux_pane_offset
    overflow_checks,        \* build profile: arithmetic overflow panics (debug) or wraps (release)
    call,                   \* the last call made on the renderer and its arguments
    result,                 \* what that call returned
    written,                \* the writes the writer passed to that call accepted, in order
    environ,                \* the process environment GraphicsBackend::detect reads
    dirty,                  \* Renderer.dirty (a DirtyRegion)
    buffered,               \* Renderer.writer: the bytes its BufWriter holds
    output,                 \* the bytes the BufWriter has passed on to stdout
    taken,                  \* every byte the Renderer's calls got the BufWriter to take, in call order
    frame_start,            \* Len(taken) when the last begin_frame began (None before the first)
    marked,                 \* the rectangles mark_region was given since the region was last clean
    focus,                  \* a FocusManager (focus.rs)
    scroll,                 \* a ScrollableView (components/scrollable.rs)
    ncalls                  \* the number of Renderer calls made so far

\* what lies outside the ImageRenderer
outer == << environ, dirty, buffered, output, taken, frame_start, marked, focus, scroll,
           ncalls >>

vars == << backend, in_tmux, line_buffer, escape_buffer, animation_image_id,
           animation_initialized, tmux_pane_offset, overflow_checks,
           call, result, written, outer >>

-----------------------------------------------------------------------------
(* Bytes and strings *)

ESC == 27
None == -1

Min(a, b) == IF a <= b THEN a ELSE b
Max(a, b) == IF a >= b THEN a ELSE b
SetMax(S) == CHOOSE x \in S : \A y \in S : y <= x
SetMin(S) == CHOOSE x \in S : \A y \in S : x <= y
DivCeil(a, b) == (a + b - 1) \div b

RECURSIVE Concat(_)
\* concatenation of a sequence of strings, by halves
Concat(ss) ==
    IF Len(ss) = 0 THEN << >>
    ELSE IF Len(ss) = 1 THEN ss[1]
    ELSE LET h == Len(ss) \div 2
         IN  Concat(SubSeq(ss, 1, h)) \o Concat(SubSeq(ss, h + 1, Len(ss)))

RECURSIVE Dec(_)
\* "{}" of an unsigned integer: its decimal digits in ASCII
Dec(n) == IF n < 10 THEN << 48 + n >> ELSE Dec(n \div 10) \o << 48 + (n % 10) >>

\* char::encode_utf8, as "{}" of a char writes it
Utf8(cp) ==
    IF cp < 128 THEN << cp >>
    ELSE IF cp < 2048 THEN << 192 + (cp \div 64), 128 + (cp % 64) >>
    ELSE IF cp < 65536
         THEN << 224 + (cp \div 4096), 128 + ((cp \div 64) % 64), 128 + (cp % 64) >>
    ELSE << 240 + (cp \div 262144), 128 + ((cp \div 4096) % 64),
            128 + ((cp \div 64) % 64), 128 + (cp % 64) >>

EscCount(s) == Cardinality({ i \in 1..Len(s) : s[i] = ESC })

\* str::replace('\x1b', "\x1b\x1b"): every ESC byte is written twice
TmuxEscapeMissing(s) == s
TmuxEscape(s) ==
    LET twice == [ i \in 1..(2 * Len(s)) |-> << s[(i + 1) \div 2], i % 2 >> ]
        kept  == SelectSeq(twice, LAMBDA p : p[2] = 1 \/ p[1] = ESC)
    IN  [ i \in 1..Len(kept) |-> kept[i][1] ]

ApcStart == << 27, 95, 71 >>                    \* "\x1b_G"
StEnd == << 27, 92 >>                           \* "\x1b\\"
TmuxStart == << 27, 80, 116, 109, 117, 120, 59 >>   \* "\x1bPtmux;"

\* write!(writer, "\x1bPtmux;{}\x1b\\", escaped)
TmuxWrap(escaped) == TmuxStart \o escaped \o StEnd

\* write!(writer, "\x1b[{};{}H", r, c)
CursorToSwapped(r, c) == << 27, 91 >> \o Dec(c) \o << 59 >> \o Dec(r) \o << 72 >>
CursorTo(r, c) == << 27, 91 >> \o Dec(r) \o << 59 >> \o Dec(c) \o << 72 >>

-----------------------------------------------------------------------------
(* The writer a call is given.  It accepts its first `budget` writes and   *)
(* fails the next one after taking `partial` bytes of it; Unlimited never  *)
(* fails.  A call is a sequence of steps run in order, each one optionally *)
(* refilling line_buffer and then writing; the first failed write returns. *)

Unlimited == -1

Step(bytes) == [ setline |-> FALSE, line |-> << >>, bytes |-> bytes ]
LineStep(line, bytes) == [ setline |-> TRUE, line |-> line, bytes |-> bytes ]

\* String::clear on a reused buffer: the content is dropped, the allocation kept
StringClearKeeps(buf) == buf
StringClear(buf) == << >>

\* the contents a reused buffer takes when it is cleared and refilled once per
\* entry of `contents`, starting from the content lb0
Lines(contents, lb0) ==
    LET lines[k \in 1..Len(contents)] ==
            StringClear(IF k = 1 THEN lb0 ELSE lines[k - 1]) \o contents[k]
    IN  lines

RunStepsIgnoringErrors(steps, w, lb0) ==
    [ ok |-> TRUE,
      written |-> [ i \in 1..Len(steps) |-> steps[i].bytes ],
      line_buffer |-> lb0 ]
RunSteps(steps, w, lb0) ==
    LET n       == Len(steps)
        nOk     == IF w.budget = Unlimited \/ w.budget >= n THEN n ELSE w.budget
        failed  == nOk < n
        started == IF failed THEN nOk + 1 ELSE n
        setters == { i \in 1..started : steps[i].setline }
        part    == IF failed THEN Min(w.partial, Len(steps[nOk + 1].bytes)) ELSE 0
    IN  [ ok |-> ~failed,
          written |-> [ i \in 1..nOk |-> steps[i].bytes ]
                      \o (IF part > 0 THEN << SubSeq(steps[nOk + 1].bytes, 1, part) >>
                          ELSE << >>),
          line_buffer |-> IF setters = {} THEN lb0 ELSE steps[SetMax(setters)].line ]

-----------------------------------------------------------------------------
(* graphics/mod.rs: placeholder character and diacritics *)

PLACEHOLDER_CHAR == 1109742     \* U+10EEEE
DEFAULT_DIACRITIC == 773        \* U+0305

DIACRITICS ==
    <<773, 781, 782, 784, 786, 829, 830, 831, 838, 842, 843, 844,
       848, 849, 850, 855, 859, 867, 868, 869, 870, 871, 872, 873,
       874, 875, 876, 877, 878, 879, 1155, 1156, 1157, 1158, 1159, 1426,
       1427, 1428, 1429, 1431, 1432, 1433, 1436, 1437, 1438, 1439, 1440, 1441,
       1448, 1449, 1451, 1452, 1455, 1476, 1552, 1553, 1554, 1555, 1556, 1557,
       1558, 1559, 1623, 1624, 1625, 1626, 1627, 1629, 1630, 1750, 1751, 1752,
       1753, 1754, 1755, 1756, 1759, 1760, 1761, 1762, 1764, 1767, 1768, 1771,
       1772, 1840, 1842, 1843, 1845, 1846, 1850, 1853, 1855, 1856, 1857, 1859,
       1861, 1863, 1865, 1866, 2027, 2028, 2029, 2030, 2031, 2032, 2033, 2035,
       2070, 2071, 2072, 2073, 2075, 2076, 2077, 2078, 2079, 2080, 2081, 2082,
       2083, 2085, 2086, 2087, 2089, 2090, 2091, 2092, 2093, 2385, 2387, 2388,
       3970, 3971, 3974, 3975, 4957, 4958, 4959, 6109, 6458, 6679, 6773, 6774,
       6775, 6776, 6777, 6778, 6779, 6780, 7019, 7021, 7022, 7023, 7024, 7025,
       7026, 7027, 7376, 7377, 7378, 7386, 7387, 7392, 7616, 7617, 7619, 7620,
       7621, 7622, 7623, 7624, 7625, 7627, 7628, 7633, 7634, 7635, 7636, 7637,
       7638, 7639, 7640, 7641, 7642, 7643, 7644, 7645, 7646, 7647, 7648, 7649,
       7650, 7651, 7652, 7653, 7654, 7678, 8400, 8401, 8404, 8405, 8406, 8407,
       8411, 8412, 8417, 8423, 8425, 8432, 11503, 11504, 11505, 11744, 11745, 11746,
       11747, 11748, 11749, 11750, 11751, 11752, 11753, 11754, 11755, 11756, 11757, 11758,
       11759, 11760, 11761, 11762, 11763, 11764, 11765, 11766, 11767, 11768, 11769, 11770,
       11771, 11772, 11773, 11774, 11775, 42607, 42620, 42621, 42736, 42737, 43232, 43233,
       43234, 43235, 43236, 43237, 43238, 43239, 43240, 43241, 43242, 43243, 43244, 43245,
       43246, 43247, 43248, 43249, 43696, 43698, 43699, 43703, 43704, 43710, 43711, 43713,
       65056, 65057, 65058, 65059, 65060, 65061, 65062 >>

\* get_diacritic(index: u8); callers pass `r as u8`, which keeps the low 8 bits
get_diacritic(index) ==
    IF index < Len(DIACRITICS) THEN DIACRITICS[index + 1] ELSE DEFAULT_DIACRITIC

AsU8(n) == n % 256

-----------------------------------------------------------------------------
(* render.rs image_helpers: pixel buffer -> PNG bytes.  The PNG encoder is  *)
(* the image crate's; its container is modelled as the PNG signature, the  *)
(* dimensions and channel count, and the pixel rows stored as they are: a  *)
(* deterministic, injective function of (width, height, pixels).           *)

PngSignature == << 137, 80, 78, 71, 13, 10, 26, 10 >>
U32BE(n) == << (n \div 16777216) % 256, (n \div 65536) % 256, (n \div 256) % 256, n % 256 >>
PngEncode(width, height, channels, pixels) ==
    PngSignature \o U32BE(width) \o U32BE(height) \o << channels >> \o pixels

\* ImageBuffer::from_raw(width, height, buf): None unless the buffer holds at
\* least width*height*channels bytes; a longer buffer is accepted and only its
\* first width*height*channels bytes are the image
FromRawFits(width, height, channels, len) == width * height * channels <= len

\* rgb_to_png / rgba_to_png: from_raw, then write_to(.., Png), which may fail
to_png(width, height, channels, data, enc_err) ==
    IF ~FromRawFits(width, height, channels, Len(data))
    THEN [ ok |-> FALSE, png |-> << >> ]
    ELSE IF enc_err
    THEN [ ok |-> FALSE, png |-> << >> ]
    ELSE [ ok |-> TRUE,
           png |-> PngEncode(width, height, channels,
                             SubSeq(data, 1, width * height * channels)) ]

-----------------------------------------------------------------------------
(* graphics/kitty.rs *)

CHUNK_SIZE == 4096

B64Char(v) ==
    IF v < 26 THEN 65 + v
    ELSE IF v < 52 THEN 97 + (v - 26)
    ELSE IF v < 62 THEN 48 + (v - 52)
    ELSE IF v = 62 THEN 43 ELSE 47
B64Pad == 61

\* base64::engine::general_purpose::STANDARD: 3 bytes -> 4 characters, '=' padded
encode_base64_unpadded(data) ==
    LET n == Len(data)
        byte(k) == IF k <= n THEN data[k] ELSE 0
    IN  [ i \in 1..(DivCeil(n * 4, 3)) |->
            LET g  == (i - 1) \div 4
                p  == (i - 1) % 4
                b1 == byte(3 * g + 1)
                b2 == byte(3 * g + 2)
                b3 == byte(3 * g + 3)
            IN  CASE p = 0 -> B64Char(b1 \div 4)
                  [] p = 1 -> B64Char((b1 % 4) * 16 + (b2 \div 16))
                  [] p = 2 -> B64Char((b2 % 16) * 4 + (b3 \div 64))
                  [] p = 3 -> B64Char(b3 % 64) ]
encode_base64(data) ==
    LET n == Len(data)
        byte(k) == IF k <= n THEN data[k] ELSE 0
    IN  [ i \in 1..(4 * DivCeil(n, 3)) |->
            LET g    == (i - 1) \div 4
                p    == (i - 1) % 4
                have == n - 3 * g
                b1   == byte(3 * g + 1)
                b2   == byte(3 * g + 2)
                b3   == byte(3 * g + 3)
            IN  CASE p = 0 -> B64Char(b1 \div 4)
                  [] p = 1 -> B64Char((b1 % 4) * 16 + (b2 \div 16))
                  [] p = 2 -> IF have >= 2 THEN B64Char((b2 % 16) * 4 + (b3 \div 64))
                              ELSE B64Pad
                  [] p = 3 -> IF have >= 3 THEN B64Char(b3 % 64) ELSE B64Pad ]

\* encoded.as_bytes().chunks(CHUNK_SIZE)
Chunks(encoded) ==
    [ k \in 1..DivCeil(Len(encoded), CHUNK_SIZE) |->
        SubSeq(encoded, (k - 1) * CHUNK_SIZE + 1, Min(k * CHUNK_SIZE, Len(encoded))) ]

\* encoded.len().div_ceil(CHUNK_SIZE)
TotalChunksFloor(encoded) == Len(encoded) \div CHUNK_SIZE
TotalChunks(encoded) == DivCeil(Len(encoded), CHUNK_SIZE)

\* image_id in render_kitty_encoded
ImageIdFresh == IF animation_initialized THEN 2 ELSE 1
ImageId == 1

\* "a=T,f=100,t=d,i={},c={},r={},C=1,q=2" written into escape_buffer
KittyParams(image_id, cols, rows) ==
    << 97, 61, 84, 44, 102, 61, 49, 48, 48, 44, 116, 61, 100, 44, 105, 61 >>
    \o Dec(image_id) \o << 44, 99, 61 >> \o Dec(cols) \o << 44, 114, 61 >> \o Dec(rows)
    \o << 44, 67, 61, 49, 44, 113, 61, 50 >>

\* the line of chunk i (0-based) in render_kitty_direct
DirectLineParamsEveryChunk(i, chunk, cmd_str, total_chunks) ==
    LET m == IF i = total_chunks - 1 THEN 0 ELSE 1
    IN  ApcStart \o cmd_str \o << 44, 109, 61 >> \o Dec(m) \o << 59 >> \o chunk \o StEnd
DirectLine(i, chunk, cmd_str, total_chunks) ==
    LET is_first_chunk == i = 0
        is_last_chunk  == i = total_chunks - 1
        m == IF is_last_chunk THEN 0 ELSE 1
    IN  (IF is_first_chunk
         THEN ApcStart \o cmd_str \o << 44, 109, 61 >> \o Dec(m) \o << 59 >>
         ELSE ApcStart \o << 109, 61 >> \o Dec(m) \o << 59 >>)
        \o chunk \o StEnd

\* render_kitty_direct: one write per chunk, each built in line_buffer
render_kitty_direct(encoded, cmd_str, total_chunks, lb0) ==
    LET chunks == Chunks(encoded)
        lines == Lines([ k \in 1..Len(chunks) |->
                           DirectLine(k - 1, chunks[k], cmd_str, total_chunks) ], lb0)
    IN  [ k \in 1..Len(chunks) |-> LineStep(lines[k], lines[k]) ]

\* the line of chunk i (0-based) in render_kitty_placeholder, before tmux escaping
PlaceholderLine(i, chunk, image_id, cols, rows, total_chunks) ==
    LET is_first_chunk == i = 0
        is_last_chunk  == i = total_chunks - 1
        m == IF is_last_chunk THEN 0 ELSE 1
    IN  (IF is_first_chunk
         THEN ApcStart
              \o << 97, 61, 84, 44, 102, 61, 49, 48, 48, 44, 116, 61, 100, 44, 105, 61 >>
              \o Dec(image_id) \o << 44, 99, 61 >> \o Dec(cols)
              \o << 44, 114, 61 >> \o Dec(rows)
              \o << 44, 85, 61, 49, 44, 113, 61, 50, 44, 109, 61 >> \o Dec(m) \o << 59 >>
         ELSE ApcStart \o << 109, 61 >> \o Dec(m) \o << 59 >>)
        \o chunk \o StEnd

\* "\x1b[38;5;{}m" for image_id < 256, else "\x1b[38;2;{};{};{}m"
IdColor(image_id) ==
    IF image_id < 256
    THEN << 27, 91, 51, 56, 59, 53, 59 >> \o Dec(image_id) \o << 109 >>
    ELSE << 27, 91, 51, 56, 59, 50, 59 >> \o Dec((image_id \div 65536) % 256) \o << 59 >>
         \o Dec((image_id \div 256) % 256) \o << 59 >> \o Dec(image_id % 256) \o << 109 >>

FgReset == << 27, 91, 51, 57, 109 >>      \* "\x1b[39m"

\* write!(writer, "{}{}{}", PLACEHOLDER_CHAR, row_diacritic, col_diacritic)
CellColumnFirst(r, c) ==
    Utf8(PLACEHOLDER_CHAR) \o Utf8(get_diacritic(AsU8(c))) \o Utf8(get_diacritic(AsU8(r)))
Cell(r, c) ==
    Utf8(PLACEHOLDER_CHAR) \o Utf8(get_diacritic(AsU8(r))) \o Utf8(get_diacritic(AsU8(c)))

\* the writes of `for r in 0..rows { if r > 0 { cursor } for c in 0..cols { cell } }`
PlaceholderGrid(cols, rows, col, row) ==
    LET total == IF rows = 0 THEN 0 ELSE cols + (rows - 1) * (cols + 1)
    IN  [ j \in 1..total |->
            IF j <= cols THEN Step(Cell(0, j - 1))
            ELSE LET q == j - cols - 1
                     r == 1 + (q \div (cols + 1))
                     k == q % (cols + 1)
                 IN  IF k = 0 THEN Step(CursorTo(row + 1 + r, col + 1))
                     ELSE Step(Cell(r, k - 1)) ]

\* render_kitty_placeholder: tmux-wrapped chunks, cursor, colour, grid, reset
render_kitty_placeholder_colour_last(encoded, image_id, cols, rows, col, row, lb0) ==
    LET chunks == Chunks(encoded)
        total_chunks == TotalChunks(encoded)
        lines == Lines([ k \in 1..Len(chunks) |->
                           PlaceholderLine(k - 1, chunks[k], image_id, cols, rows,
                                           total_chunks) ], lb0)
    IN  [ k \in 1..Len(chunks) |-> LineStep(lines[k], TmuxWrap(TmuxEscape(lines[k]))) ]
        \o << Step(CursorTo(row + 1, col + 1)) >>
        \o PlaceholderGrid(cols, rows, col, row)
        \o << Step(IdColor(image_id)), Step(FgReset) >>
render_kitty_placeholder(encoded, image_id, cols, rows, col, row, lb0) ==
    LET chunks == Chunks(encoded)
        total_chunks == TotalChunks(encoded)
        lines == Lines([ k \in 1..Len(chunks) |->
                           PlaceholderLine(k - 1, chunks[k], image_id, cols, rows,
                                           total_chunks) ], lb0)
    IN  [ k \in 1..Len(chunks) |-> LineStep(lines[k], TmuxWrap(TmuxEscape(lines[k]))) ]
        \o << Step(CursorTo(row + 1, col + 1)), Step(IdColor(image_id)) >>
        \o PlaceholderGrid(cols, rows, col, row)
        \o << Step(FgReset) >>

\* width_cells.unwrap_or(40), height_cells.unwrap_or(10)
DefaultCols == 40
DefaultRows == 10

\* the result of a call: what it returned, what the writer accepted, and the
\* renderer fields it leaves behind
Outcome(res, wr, lb, eb, init) ==
    [ res |-> res, written |-> wr, line_buffer |-> lb, escape_buffer |-> eb,
      animation_initialized |-> init ]

\* the writes of render_kitty_encoded on a renderer whose line buffer holds
\* lb0, given the command parameters it has put into its escape buffer
KittySteps(encoded, image_id, cmd_str, cols, rows, col, row, lb0) ==
    IF in_tmux
    THEN render_kitty_placeholder(encoded, image_id, cols, rows, col, row, lb0)
    ELSE << Step(CursorTo(row + 1, col + 1)) >>
         \o render_kitty_direct(encoded, cmd_str, TotalChunks(encoded), lb0)

\* render_kitty_encoded
render_kitty_encoded(png_data, col, row, width_cells, height_cells, w) ==
    LET encoded == encode_base64(png_data)
        cols == IF width_cells = None THEN DefaultCols ELSE width_cells
        rows == IF height_cells = None THEN DefaultRows ELSE height_cells
        image_id == ImageId
        cmd_str == StringClear(escape_buffer) \o KittyParams(image_id, cols, rows)
        steps == KittySteps(encoded, image_id, cmd_str, cols, rows, col, row, line_buffer)
        run == RunSteps(steps, w, line_buffer)
    IN  Outcome(IF run.ok THEN "Ok" ELSE "IoError", run.written, run.line_buffer,
                cmd_str, IF run.ok THEN TRUE ELSE animation_initialized)

\* render_kitty (channels = 3) and render_kitty_rgba (channels = 4)
render_kitty_cursor_first(image_data, channels, width, height, col, row, width_cells, height_cells, w, enc_err) ==
    LET png == to_png(width, height, channels, image_data, enc_err)
    IN  IF png.ok
        THEN render_kitty_encoded(png.png, col, row, width_cells, height_cells, w)
        ELSE Outcome("InvalidImageBuffer",
                     RunSteps(<< Step(CursorTo(row + 1, col + 1)) >>, w, line_buffer).written,
                     line_buffer, escape_buffer, animation_initialized)
render_kitty(image_data, channels, width, height, col, row, width_cells, height_cells, w, enc_err) ==
    LET png == to_png(width, height, channels, image_data, enc_err)
    IN  IF png.ok
        THEN render_kitty_encoded(png.png, col, row, width_cells, height_cells, w)
        ELSE Outcome(IF FromRawFits(width, height, channels, Len(image_data))
                     THEN "EncodingError" ELSE "InvalidImageBuffer",
                     << >>, line_buffer, escape_buffer, animation_initialized)

-----------------------------------------------------------------------------
(* graphics/blocks.rs *)

\* BLOCKS: [char; 8] = [' ', '░', '░', '▒', '▒', '▓', '▓', '█']
BLOCKS == << 32, 9617, 9617, 9618, 9618, 9619, 9619, 9608 >>

AsU16(n) == n % 65536

\* the glyph pushed for cell (cx, cy)
BlockGlyphCentre(image_data, width, height, cx, cy, pixels_per_cell_x, pixels_per_cell_y) ==
    LET px == cx * pixels_per_cell_x + pixels_per_cell_x \div 2
        py == cy * pixels_per_cell_y + pixels_per_cell_y \div 2
        idx == (py * width + px) * 3
    IN  IF px < width /\ py < height /\ idx + 2 < Len(image_data)
        THEN LET r == image_data[idx + 1]
                 g == image_data[idx + 2]
                 b == image_data[idx + 3]
                 brightness == (r + g + b) \div 3
             IN  BLOCKS[Min(brightness \div 32, 7) + 1]
        ELSE 32
BlockGlyph(image_data, width, height, cx, cy, pixels_per_cell_x, pixels_per_cell_y) ==
    LET px == cx * pixels_per_cell_x
        py == cy * pixels_per_cell_y
        idx == (py * width + px) * 3
    IN  IF px < width /\ py < height /\ idx + 2 < Len(image_data)
        THEN LET r == image_data[idx + 1]
                 g == image_data[idx + 2]
                 b == image_data[idx + 3]
                 brightness == (r + g + b) \div 3
             IN  BLOCKS[Min(brightness \div 32, 7) + 1]
        ELSE 32

\* render_blocks
\* the rows render_blocks writes on a renderer whose line buffer holds lb0
BlocksSteps(image_data, width, height, col, row, cell_width, cell_height, lb0) ==
    LET pixels_per_cell_x == width \div cell_width
        pixels_per_cell_y == height \div cell_height
        lines == Lines([ k \in 1..cell_height |->
                           Concat([ j \in 1..cell_width |->
                                      Utf8(BlockGlyph(image_data, width, height, j - 1,
                                                      k - 1, pixels_per_cell_x,
                                                      pixels_per_cell_y)) ]) ], lb0)
    IN  [ k \in 1..cell_height |->
            LineStep(lines[k], CursorTo(row + (k - 1) + 1, col + 1) \o lines[k]) ]

render_blocks(image_data, width, height, col, row, width_cells, height_cells, w) ==
    LET cell_width  == IF width_cells = None THEN AsU16(width) \div 2 ELSE width_cells
        cell_height == IF height_cells = None THEN AsU16(height) \div 4 ELSE height_cells
        steps == BlocksSteps(image_data, width, height, col, row, cell_width, cell_height,
                             line_buffer)
        run == RunSteps(steps, w, line_buffer)
    IN  IF cell_width = 0 \/ cell_height = 0
        THEN Outcome("Ok", << >>, line_buffer, escape_buffer, animation_initialized)
        ELSE Outcome(IF run.ok THEN "Ok" ELSE "IoError", run.written, run.line_buffer,
                     escape_buffer, animation_initialized)

-----------------------------------------------------------------------------
(* graphics/sixel.rs *)

\* `r * 100 / 255` on a u8: the product overflows for r >= 3
SixelOverflows(v) == v * 100 > 255
SixelPercent(v) == ((v * 100) % 256) \div 255

\* the bands `(0..height).step_by(6)` visits
SixelBands(height) == DivCeil(height, 6)

\* "#{};2;{};{};{}" followed by '#', '1', '?'
SixelPixel(r, g, b) ==
    << 35 >> \o Dec(1) \o << 59, 50, 59 >> \o Dec(SixelPercent(r)) \o << 59 >>
    \o Dec(SixelPercent(g)) \o << 59 >> \o Dec(SixelPercent(b)) \o << 35, 49, 63 >>

\* encode_sixel
encode_sixel(pixels, width, height) ==
    << 27, 80, 113 >>
    \o Concat([ k \in 1..SixelBands(height) |->
                 Concat([ j \in 1..width |->
                            LET idx == ((k - 1) * 6 * width + (j - 1)) * 3
                            IN  SixelPixel(pixels[idx + 1], pixels[idx + 2], pixels[idx + 3]) ])
                 \o << 36, 45 >> ])
    \o StEnd

\* the channel values encode_sixel multiplies
SixelSampled(pixels, width, height) ==
    { pixels[((k - 1) * 6 * width + (j - 1)) * 3 + c] :
        k \in 1..SixelBands(height), j \in 1..width, c \in 1..3 }

\* render_sixel
render_sixel(image_data, width, height, col, row, w) ==
    LET fits == FromRawFits(width, height, 3, Len(image_data))
        cursor == RunSteps(<< Step(CursorTo(row + 1, col + 1)) >>, w, line_buffer)
        panics == overflow_checks
                  /\ \E v \in SixelSampled(image_data, width, height) : SixelOverflows(v)
        sixel_data == encode_sixel(image_data, width, height)
        run == RunSteps(<< Step(CursorTo(row + 1, col + 1)),
                           Step(IF in_tmux THEN TmuxWrap(TmuxEscape(sixel_data))
                                ELSE sixel_data) >>, w, line_buffer)
    IN  IF ~fits
        THEN Outcome("InvalidImageBuffer", << >>, line_buffer, escape_buffer,
                     animation_initialized)
        ELSE IF ~cursor.ok
        THEN Outcome("IoError", cursor.written, line_buffer, escape_buffer,
                     animation_initialized)
        ELSE IF panics
        THEN Outcome("Panic", cursor.written, line_buffer, escape_buffer,
                     animation_initialized)
        ELSE Outcome(IF run.ok THEN "Ok" ELSE "IoError", run.written, line_buffer,
                     escape_buffer, animation_initialized)

-----------------------------------------------------------------------------
(* graphics/framebuffer.rs *)

\* render_framebuffer: opens /dev/fb0 and writes the buffer as it is; nothing
\* goes to the writer, and the device may fail
render_framebuffer(image_data, fb_err) ==
    Outcome(IF fb_err THEN "IoError" ELSE "Ok", << >>, line_buffer, escape_buffer,
            animation_initialized)

-----------------------------------------------------------------------------
(* graphics/mod.rs: ImageRenderer *)

Backends == { "Framebuffer", "Kitty", "Sixel", "Blocks" }

\* An environment variable is unset, or set to a text (possibly empty).
Unset == [ set |-> FALSE, text |-> << >> ]
SetTo(text) == [ set |-> TRUE, text |-> text ]
\* std::env::var(name).is_ok()
VarIsOk(name) == environ[name].set
\* std::env::var(name).unwrap_or_default()
VarOrDefault(name) == IF environ[name].set THEN environ[name].text ELSE << >>
\* str::contains(pat)
Contains(text, pat) ==
    \E i \in 1..(Len(text) - Len(pat) + 1) : SubSeq(text, i, i + Len(pat) - 1) = pat

TextKitty == << 107, 105, 116, 116, 121 >>             \* "kitty"
TextMlterm == << 109, 108, 116, 101, 114, 109 >>       \* "mlterm"
TextXterm == << 120, 116, 101, 114, 109 >>             \* "xterm"
TextITerm == << 105, 84, 101, 114, 109 >>              \* "iTerm"

\* GraphicsBackend::has_framebuffer
has_framebuffer ==
    IF VarIsOk("DISPLAY") \/ VarIsOk("WAYLAND_DISPLAY") THEN FALSE
    ELSE environ.fb0_exists

\* GraphicsBackend::has_kitty
has_kitty ==
    VarIsOk("KITTY_WINDOW_ID") \/ Contains(VarOrDefault("TERM"), TextKitty)

\* GraphicsBackend::has_sixel
has_sixel ==
    LET term == VarOrDefault("TERM")
    IN  \/ Contains(term, TextMlterm)
        \/ Contains(term, TextXterm)
        \/ Contains(VarOrDefault("TERM_PROGRAM"), TextITerm)

\* GraphicsBackend::detect
detect_sixel_before_kitty ==
    IF has_framebuffer THEN "Framebuffer"
    ELSE IF has_sixel THEN "Sixel"
    ELSE IF has_kitty THEN "Kitty"
    ELSE "Blocks"
detect ==
    IF has_framebuffer THEN "Framebuffer"
    ELSE IF has_kitty THEN "Kitty"
    ELSE IF has_sixel THEN "Sixel"
    ELSE "Blocks"

\* ImageRenderer::render_image
render_image(image_data, width, height, col, row, width_cells, height_cells, w, env) ==
    CASE backend = "Framebuffer" -> render_framebuffer(image_data, env.fb_err)
      [] backend = "Kitty" ->
            render_kitty(image_data, 3, width, height, col, row, width_cells, height_cells,
                         w, env.enc_err)
      [] backend = "Sixel" -> render_sixel(image_data, width, height, col, row, w)
      [] backend = "Blocks" ->
            render_blocks(image_data, width, height, col, row, width_cells, height_cells, w)

\* image_data.chunks(4).flat_map(|c| [c[0], c[1], c[2]]): indexing a last chunk
\* of one or two bytes panics
DropAlphaPanics(image_data) == Len(image_data) % 4 \in { 1, 2 }
DropAlphaTruncates(image_data) == SubSeq(image_data, 1, 3 * DivCeil(Len(image_data), 4))
DropAlpha(image_data) ==
    [ i \in 1..(3 * DivCeil(Len(image_data), 4)) |->
        image_data[4 * ((i - 1) \div 3) + ((i - 1) % 3) + 1] ]

\* ImageRenderer::render_image_rgba
render_image_rgba(image_data, width, height, col, row, width_cells, height_cells, w, env) ==
    CASE backend = "Framebuffer" -> render_framebuffer(image_data, env.fb_err)
      [] backend = "Kitty" ->
            render_kitty(image_data, 4, width, height, col, row, width_cells, height_cells,
                         w, env.enc_err)
      [] backend \in { "Sixel", "Blocks" } /\ DropAlphaPanics(image_data) ->
            Outcome("Panic", << >>, line_buffer, escape_buffer, animation_initialized)
      [] backend = "Sixel" /\ ~DropAlphaPanics(image_data) ->
            render_sixel(DropAlpha(image_data), width, height, col, row, w)
      [] backend = "Blocks" /\ ~DropAlphaPanics(image_data) ->
            render_blocks(DropAlpha(image_data), width, height, col, row,
                          width_cells, height_cells, w)

\* delete_cmd = "\x1b_Ga=d,d=I,i=1,q=2\x1b\\"
DeleteCmd ==
    << 27, 95, 71, 97, 61, 100, 44, 100, 61, 73, 44, 105, 61, 49, 44, 113, 61, 50, 27, 92 >>

\* ImageRenderer::delete_all_images, after its reset_animation
delete_all_images_every_backend(w) ==
    LET run == RunSteps(<< Step(IF in_tmux THEN TmuxWrap(TmuxEscape(DeleteCmd))
                                ELSE DeleteCmd) >>, w, line_buffer)
    IN  [ ok |-> run.ok, written |-> run.written ]
delete_all_images(w) ==
    IF backend # "Kitty" THEN [ ok |-> TRUE, written |-> << >> ]
    ELSE LET run == RunSteps(<< Step(IF in_tmux THEN TmuxWrap(TmuxEscape(DeleteCmd))
                                     ELSE DeleteCmd) >>, w, line_buffer)
         IN  [ ok |-> run.ok, written |-> run.written ]

\* TmuxPaneOffset::query(): None (the empty tuple), or the pane's (top, left)
NoOffset == << >>
PaneOffsets == { NoOffset, << 3, 40 >> }

-----------------------------------------------------------------------------
(* focus.rs: FocusManager.  focused_id is an Option<ComponentId>: << >> is  *)
(* None and << id >> is Some(id).  id_to_index is the HashMap, a function   *)
(* from the registered IDs to 0-based positions in focus_order.             *)

NoFocus == << >>
Some(id) == << id >>

\* FocusableInfo { id, focusable, tab_index } (group is never read)
FocusableInfo(id, focusable, tab_index) ==
    [ id |-> id, focusable |-> focusable, tab_index |-> tab_index ]
\* FocusableInfo::new(id)
FocusableInfoNew(id) == FocusableInfo(id, TRUE, 0)

\* id_to_index.clear(); for (i, info) in focus_order.iter().enumerate() { insert(id, i) }
\* (a later insert of the same key replaces the earlier one)
IndexOf(order) ==
    [ id \in { order[i].id : i \in 1..Len(order) } |->
        SetMax({ i \in 1..Len(order) : order[i].id = id }) - 1 ]

\* FocusManager::new()
FocusManagerNew ==
    [ focused_id |-> NoFocus, focus_order |-> << >>, id_to_index |-> IndexOf(<< >>),
      focus_ring_visible |-> TRUE, wrap_around |-> TRUE ]

\* focus_order.sort_by_key(|info| info.tab_index): a stable sort
SortedByTabIndex(order) ==
    LET n == Len(order)
        rank(i) == 1 + Cardinality({ j \in 1..n :
                         \/ order[j].tab_index < order[i].tab_index
                         \/ order[j].tab_index = order[i].tab_index /\ j < i })
    IN  [ p \in 1..n |-> order[CHOOSE i \in 1..n : rank(i) = p] ]

\* FocusManager::sort_by_tab_index
sort_by_tab_index(f) ==
    LET sorted == SortedByTabIndex(f.focus_order)
    IN  [ f EXCEPT !.focus_order = sorted, !.id_to_index = IndexOf(sorted) ]

\* FocusManager::register_with_info
register_with_info(f, info) ==
    IF info.id \in DOMAIN f.id_to_index
    THEN sort_by_tab_index(
             [ f EXCEPT !.focus_order[f.id_to_index[info.id] + 1] = info ])
    ELSE sort_by_tab_index(
             [ f EXCEPT !.focus_order = Append(f.focus_order, info),
                        !.id_to_index = [ id \in DOMAIN f.id_to_index \cup { info.id } |->
                                            IF id = info.id THEN Len(f.focus_order)
                                            ELSE f.id_to_index[id] ] ])

\* FocusManager::register
register(f, id) == register_with_info(f, FocusableInfoNew(id))

\* Vec::remove(idx), idx 0-based
Removed(order, idx) ==
    [ i \in 1..(Len(order) - 1) |-> IF i <= idx THEN order[i] ELSE order[i + 1] ]

\* FocusManager::unregister
unregister(f, id) ==
    IF id \in DOMAIN f.id_to_index
    THEN LET rest == Removed(f.focus_order, f.id_to_index[id])
         IN  [ f EXCEPT !.focused_id = IF f.focused_id = Some(id) THEN NoFocus ELSE @,
                        !.focus_order = rest,
                        !.id_to_index = IndexOf(rest) ]
    ELSE f

\* what a call on the FocusManager returns, with the manager it leaves
Moved(f, ret) == [ f |-> f, ret |-> ret ]

\* FocusManager::focus
focus_id(f, id) ==
    IF id \in DOMAIN f.id_to_index /\ f.focus_order[f.id_to_index[id] + 1].focusable
    THEN Moved([ f EXCEPT !.focused_id = Some(id) ], TRUE)
    ELSE Moved(f, FALSE)

\* FocusManager::blur
blur(f) == [ f EXCEPT !.focused_id = NoFocus ]

\* FocusManager::next_focus_index; current is None or a 0-based index
next_focus_index_wrapping(f, current, len, direction) ==
    LET forward == direction \in { "Next", "Down", "Right" }
    IN  CASE current = None /\ forward -> 0
          [] current = None /\ ~forward -> len - 1
          [] current # None /\ forward -> (current + 1) % len
          [] current # None /\ ~forward -> (current + len - 1) % len
next_focus_index(f, current, len, direction) ==
    LET forward == direction \in { "Next", "Down", "Right" }
    IN  CASE current = None /\ forward -> 0
          [] current = None /\ ~forward -> len - 1
          [] current # None /\ forward /\ current + 1 < len -> current + 1
          [] current # None /\ ~forward /\ current > 0 -> current - 1
          [] current # None /\ ~(forward /\ current + 1 < len) /\ ~(~forward /\ current > 0)
             /\ f.wrap_around /\ forward -> 0
          [] current # None /\ ~(forward /\ current + 1 < len) /\ ~(~forward /\ current > 0)
             /\ f.wrap_around /\ ~forward -> len - 1
          [] OTHER -> None

\* FocusManager::move_focus
move_focus(f, direction) ==
    LET \* the 0-based positions in focus_order of the focusable components
        focusable == SelectSeq([ i \in 1..Len(f.focus_order) |-> i - 1 ],
                               LAMBDA i : f.focus_order[i + 1].focusable)
        at == IF f.focused_id # NoFocus /\ f.focused_id[1] \in DOMAIN f.id_to_index
              THEN { k \in 1..Len(focusable) : focusable[k] = f.id_to_index[f.focused_id[1]] }
              ELSE { }
        current_idx == IF at = { } THEN None ELSE SetMin(at) - 1
        new_idx == next_focus_index(f, current_idx, Len(focusable), direction)
    IN  IF focusable = << >> THEN Moved(f, FALSE)
        ELSE IF new_idx # None
        THEN Moved([ f EXCEPT !.focused_id = Some(f.focus_order[focusable[new_idx + 1] + 1].id) ],
                   TRUE)
        ELSE Moved(f, FALSE)

\* FocusManager::focus_next, FocusManager::focus_prev
focus_next(f) == move_focus(f, "Next")
focus_prev(f) == move_focus(f, "Previous")

\* FocusManager::set_wrap_around
set_wrap_around(f, wrap) == [ f EXCEPT !.wrap_around = wrap ]

-----------------------------------------------------------------------------
(* components/scrollable.rs: ScrollableView.  Sizes and offsets are usize;  *)
(* the arithmetic below is min and saturating_sub, which cannot overflow.   *)

\* ScrollableView::new
ScrollableViewNew(content_width, content_height) ==
    [ content_width |-> content_width, content_height |-> content_height,
      offset_x |-> 0, offset_y |-> 0, scroll_by_page |-> FALSE, scroll_margin |-> 3 ]

\* usize::saturating_sub
SaturatingSub(a, b) == IF a >= b THEN a - b ELSE 0

\* ScrollableView::clamp_offset
clamp_offset(v, viewport_width, viewport_height) ==
    [ v EXCEPT
        !.offset_x = IF v.content_width > viewport_width
                     THEN Min(v.offset_x, SaturatingSub(v.content_width, viewport_width))
                     ELSE 0,
        !.offset_y = IF v.content_height > viewport_height
                     THEN Min(v.offset_y, SaturatingSub(v.content_height, viewport_height))
                     ELSE 0 ]

\* ScrollableView::set_content_size
set_content_size(v, width, height) ==
    clamp_offset([ v EXCEPT !.content_width = width, !.content_height = height ],
                 width, height)

\* ScrollableView::scroll_to
scroll_to(v, x, y) ==
    [ v EXCEPT !.offset_x = Min(x, v.content_width), !.offset_y = Min(y, v.content_height) ]

-----------------------------------------------------------------------------
(* render.rs: DirtyRegion.  Columns and rows are u16 screen coordinates; the *)
(* sums below stay under 2^16 for every rectangle the model marks.           *)

\* DirtyRegion::new
DirtyRegionNew ==
    [ min_col |-> 0, min_row |-> 0, max_col |-> 0, max_row |-> 0, is_dirty |-> FALSE ]

\* a rectangle of cells, as mark_region and intersects take it
Rect(col, row, width, height) == [ col |-> col, row |-> row, width |-> width, height |-> height ]

\* col + width and row + height are u16 sums: past 65535 they panic in a
\* build with overflow checks and wrap in one without
Overflows(a, b) == a + b > 65535

\* DirtyRegion::mark_region
mark_region_panics(col, row, width, height) ==
    overflow_checks /\ (Overflows(col, width) \/ Overflows(row, height))
mark_region_overwrites(d, col, row, width, height) ==
    [ min_col |-> col, min_row |-> row,
      max_col |-> AsU16(col + width), max_row |-> AsU16(row + height), is_dirty |-> TRUE ]
mark_region(d, col, row, width, height) ==
    IF ~d.is_dirty
    THEN [ min_col |-> col, min_row |-> row,
           max_col |-> AsU16(col + width), max_row |-> AsU16(row + height),
           is_dirty |-> TRUE ]
    ELSE [ min_col |-> Min(d.min_col, col), min_row |-> Min(d.min_row, row),
           max_col |-> Max(d.max_col, AsU16(col + width)),
           max_row |-> Max(d.max_row, AsU16(row + height)),
           is_dirty |-> TRUE ]

\* DirtyRegion::clear
clear(d) ==
    [ min_col |-> 0, min_row |-> 0, max_col |-> 0, max_row |-> 0, is_dirty |-> FALSE ]

\* DirtyRegion::intersects; || evaluates row + height only when the column
\* tests are both false
intersects_panics(d, col, row, width, height) ==
    /\ overflow_checks
    /\ d.is_dirty
    /\ \/ Overflows(col, width)
       \/ /\ ~(col + width < d.min_col \/ col > d.max_col)
          /\ Overflows(row, height)
intersects(d, col, row, width, height) ==
    IF ~d.is_dirty THEN FALSE
    ELSE ~(\/ AsU16(col + width) < d.min_col
           \/ col > d.max_col
           \/ AsU16(row + height) < d.min_row
           \/ row > d.max_row)

-----------------------------------------------------------------------------------------------------------------------------------------------------
(* render.rs: Renderer.writer, a BufWriter<Stdout> of WRITE_BUFFER_CAPACITY *)
(* bytes.  A write that fits is kept; one that does not fit first empties   *)
(* the buffer into stdout, and one as large as the buffer goes to stdout    *)
(* directly.  A write or flush that reaches stdout fails, taking nothing,   *)
(* when stdout does (stdout_ok = FALSE).  Each write! is handed over whole. *)

WRITE_BUFFER_CAPACITY == 16384

\* a BufWriter: the bytes it holds and the bytes it has passed on
BufWriter(held, passed) == [ buffered |-> held, output |-> passed ]

\* the result of a run of writes: failed_at is the index of the first write
\* that failed (0 when none did)
BufResult(failed_at, held, passed) ==
    [ failed_at |-> failed_at, buffered |-> held, output |-> passed ]

RECURSIVE BufRunFrom(_, _, _, _)
\* BufWriter::write_all for the writes ws[k..], made in order, each with ?
BufRunFrom(ws, k, bw, stdout_ok) ==
    LET n    == Len(ws)
        rest == Concat(SubSeq(ws, k, n))
        room == WRITE_BUFFER_CAPACITY - Len(bw.buffered)
    IN  IF Len(rest) <= room /\ Len(rest) < WRITE_BUFFER_CAPACITY
        THEN BufResult(0, bw.buffered \o rest, bw.output)
        ELSE \* j: the first write that does not go into the buffer as it is
             LET j == SetMin({ i \in k..n :
                                 \/ Len(Concat(SubSeq(ws, k, i))) > room
                                 \/ Len(ws[i]) >= WRITE_BUFFER_CAPACITY })
                 held  == bw.buffered \o Concat(SubSeq(ws, k, j - 1))
                 spill == Len(ws[j]) > WRITE_BUFFER_CAPACITY - Len(held)
                 emptied == IF spill THEN BufWriter(<< >>, bw.output \o held)
                            ELSE BufWriter(held, bw.output)
                 direct == Len(ws[j]) >= WRITE_BUFFER_CAPACITY
             IN  IF spill /\ ~stdout_ok THEN BufResult(j, held, bw.output)
                 ELSE IF direct /\ ~stdout_ok
                 THEN BufResult(j, emptied.buffered, emptied.output)
                 ELSE CHOOSE r \in
                        { BufRunFrom(ws, j + 1, after, stdout_ok) :
                            after \in { IF direct
                                        THEN BufWriter(emptied.buffered,
                                                       emptied.output \o ws[j])
                                        ELSE BufWriter(emptied.buffered \o ws[j],
                                                       emptied.output) } } : TRUE

\* a run of writes into the BufWriter
BufRun(ws, bw, stdout_ok) == BufRunFrom(ws, 1, bw, stdout_ok)

\* BufWriter::flush: empty the buffer into stdout, then flush stdout
BufFlushKeepsPending(bw, stdout_ok) ==
    BufResult(IF stdout_ok THEN 0 ELSE 1, bw.buffered, bw.output)
BufFlush(bw, stdout_ok) ==
    IF stdout_ok THEN BufResult(0, << >>, bw.output \o bw.buffered)
    ELSE BufResult(1, bw.buffered, bw.output)

\* the writer an encoder sees when its writes run into the BufWriter
WriterFor(run) ==
    IF run.failed_at = 0 THEN [ budget |-> Unlimited, partial |-> 0 ]
    ELSE [ budget |-> run.failed_at - 1, partial |-> 0 ]

HideCursor == << 27, 91, 63, 50, 53, 108 >>     \* "\x1b[?25l"
ShowCursor == << 27, 91, 63, 50, 53, 104 >>     \* "\x1b[?25h"

-----------------------------------------------------------------------------
(* The calls of a run and their arguments *)

MaxCol == 9
MaxRow == 98
MaxBudget == 3
MaxGrid == 257

Img(width, height, len, pat) == [ width |-> width, height |-> height, len |-> len, pat |-> pat ]

\* byte i (0-based) of a buffer filled with a pattern
PatByte(pat, channels, i) ==
    CASE pat = "red"  -> IF i % channels = 0 THEN 255 ELSE IF i % channels = 3 THEN 128 ELSE 0
      [] pat = "dark" -> i % 3
      [] pat = "ramp" -> (i * 53 + 7) % 256

ImageData(img, channels) == [ i \in 1..img.len |-> PatByte(img.pat, channels, i - 1) ]

GoodWriter == [ budget |-> Unlimited, partial |-> 0 ]
FailingWriters == { [ budget |-> b, partial |-> p ] : b \in 0..MaxBudget, p \in { 0, 1 } }
NoErr == [ enc_err |-> FALSE, fb_err |-> FALSE ]
AllErr == [ enc_err |-> TRUE, fb_err |-> TRUE ]

Arg(img, pos, cells, w, env) ==
    [ img |-> img, col |-> pos[1], row |-> pos[2],
      width_cells |-> cells[1], height_cells |-> cells[2], w |-> w, env |-> env ]

Exact(width, height, channels, pat) == Img(width, height, width * height * channels, pat)

\* buffers of the right length at several positions and cell sizes
PlainArgs(channels) ==
    { Arg(img, pos, cells, GoodWriter, NoErr) :
        img \in { Exact(4, 4, channels, "red"), Exact(2, 7, channels, "dark") },
        pos \in { << 0, 0 >>, << MaxCol, MaxRow >> },
        cells \in { << None, None >>, << 2, 1 >>, << 2, 3 >> } }
    \cup { Arg(Exact(1, 1, channels, "ramp"), << 0, 0 >>, << 0, 1 >>, GoodWriter, NoErr),
           Arg(Exact(4, 4, channels, "ramp"), << 0, 0 >>, << 3, 2 >>, GoodWriter, NoErr) }

\* buffers shorter or longer than width*height*channels
MismatchedArgs(channels) ==
    { Arg(Img(2, 2, 4 * channels + k, "red"), << 0, 0 >>, cells, GoodWriter, NoErr) :
        k \in { -2, -1, 1 }, cells \in { << None, None >>, << 2, 1 >> } }

\* a writer that fails, and an encoder or device that fails
FailingArgs(channels) ==
    { Arg(Exact(4, 4, channels, "red"), << 0, 0 >>, << 2, 3 >>, w, NoErr) :
        w \in FailingWriters }
    \cup { Arg(Exact(4, 4, channels, "red"), << 0, 0 >>, << 2, 1 >>, GoodWriter, AllErr) }

\* images whose base64 payload is 4096, 4104, 8192 and 8200 characters (RGB)
\* or 4100 characters (RGBA)
LargeArgs(channels) ==
    { Arg(Exact(2, h, channels, "ramp"), << 0, 0 >>, << 2, 1 >>, GoodWriter, NoErr) :
        h \in (IF channels = 3 THEN { 509, 510, 1021, 1022 } ELSE { 382 }) }
    \cup (IF channels = 3
          THEN { Arg(Exact(2, 1022, 3, "ramp"), << 0, 0 >>, << 2, 1 >>,
                     [ budget |-> 2, partial |-> 1 ], NoErr) }
          ELSE { })

\* placeholder grids up to and beyond the 256 diacritic indices
GridArgs(channels) ==
    IF channels = 3
    THEN { Arg(Exact(1, 1, 3, "red"), << MaxCol, MaxRow >>, cells, GoodWriter, NoErr) :
             cells \in { << 1, 256 >>, << 256, 1 >>, << 2, MaxGrid >>, << 1, MaxGrid + 1 >> } }
    ELSE { }

\* environments: with and without /dev/fb0, a display, a Kitty window id, and
\* terminal names that hold none, one or two of the names detect looks for
TermNames ==
    { Unset,
      SetTo(<< >>),
      SetTo(<< 120, 116, 101, 114, 109, 45, 107, 105, 116, 116, 121 >>),        \* "xterm-kitty"
      SetTo(<< 120, 116, 101, 114, 109, 45, 50, 53, 54, 99, 111, 108, 111, 114 >>), \* "xterm-256color"
      SetTo(<< 109, 108, 116, 101, 114, 109 >>),                                  \* "mlterm"
      SetTo(<< 107, 105, 116, 116, 121 >>),                                       \* "kitty"
      SetTo(<< 108, 105, 110, 117, 120 >>),                                       \* "linux"
      SetTo(<< 120, 116, 101, 114 >>) }                                           \* "xter"
TermPrograms ==
    { Unset,
      SetTo(<< 105, 84, 101, 114, 109, 46, 97, 112, 112 >>),                      \* "iTerm.app"
      SetTo(<< 105, 116, 101, 114, 109 >>) }                                      \* "iterm"
Environments ==
    [ fb0_exists : BOOLEAN,
      DISPLAY : { Unset, SetTo(<< >>), SetTo(<< 58, 48 >>) },                     \* "", ":0"
      WAYLAND_DISPLAY : { Unset, SetTo(<< 119, 97, 121, 108, 97, 110, 100, 45, 48 >>) },
      KITTY_WINDOW_ID : { Unset, SetTo(<< 49 >>) },
      TERM : TermNames,
      TERM_PROGRAM : TermPrograms ]
\* an environment with nothing set and no framebuffer device
BareEnvironment ==
    [ fb0_exists |-> FALSE, DISPLAY |-> Unset, WAYLAND_DISPLAY |-> Unset,
      KITTY_WINDOW_ID |-> Unset, TERM |-> Unset, TERM_PROGRAM |-> Unset ]

MaxCalls == 3
MaxMarks == 3

\* rectangles given to DirtyRegion: on screen, empty, and two whose far edge
\* lies past the last u16 column or row
Rects ==
    { Rect(5, 5, 3, 2), Rect(2, 8, 1, 1), Rect(0, 0, 0, 0), Rect(10, 1, 4, 9),
      Rect(65535, 0, 1, 1), Rect(3, 65530, 2, 10) }

\* what Renderer calls draw: a 10x20 image without cell sizes (inside tmux on
\* Kitty, where the default grid is 400 cells, a 4x4 image with cell sizes)
\* and, on Kitty outside tmux as the first or second call, a 2x2048 image
\* whose transmission is longer than the write buffer
RendererArgs(channels) ==
    (IF backend = "Kitty" /\ in_tmux
     THEN { Arg(Exact(4, 4, channels, "ramp"), << 1, 2 >>, << 2, 1 >>, GoodWriter, NoErr) }
     ELSE { Arg(Exact(10, 20, channels, "ramp"), << 1, 2 >>, << None, None >>,
                GoodWriter, NoErr) })
    \cup (IF channels = 3 /\ backend = "Kitty" /\ ~in_tmux /\ line_buffer = << >>
             /\ ncalls <= 1
          THEN { Arg(Exact(2, 2048, 3, "ramp"), << 0, 0 >>, << 2, 1 >>, GoodWriter, NoErr) }
          ELSE { })

\* the long transmissions are made on a renderer whose line buffer is still
\* empty; every other call is made in every state
RenderArgs(channels) ==
    PlainArgs(channels) \cup MismatchedArgs(channels) \cup FailingArgs(channels)
    \cup (IF backend = "Kitty" /\ line_buffer = << >> THEN LargeArgs(channels) ELSE { })
    \cup (IF backend = "Kitty" /\ in_tmux /\ line_buffer = << >>
          THEN GridArgs(channels) ELSE { })

-----------------------------------------------------------------------------
(* Specification.  A call runs as one step and leaves its arguments, its    *)
(* result and the bytes its writer accepted in call, result and written;   *)
(* Return hands control back to the caller, who makes the next call.       *)

Idle == [ op |-> "idle" ]

\* the renderer fields a call found
Before == [ animation_initialized |-> animation_initialized,
            animation_image_id |-> animation_image_id ]

\* Renderer's own fields after construction, with nothing written yet
OuterInit ==
    /\ dirty = DirtyRegionNew
    /\ buffered = << >>
    /\ output = << >>
    /\ taken = << >>
    /\ frame_start = None
    /\ marked = << >>
    /\ focus = FocusManagerNew
    /\ scroll = ScrollableViewNew(0, 0)
    /\ ncalls = 0

\* ImageRenderer::new(backend, in_tmux)
Init ==
    /\ backend \in Backends
    /\ in_tmux \in BOOLEAN
    /\ line_buffer = << >>
    /\ escape_buffer = << >>
    /\ animation_image_id = None
    /\ animation_initialized = FALSE
    /\ tmux_pane_offset \in (IF in_tmux THEN PaneOffsets ELSE { NoOffset })
    /\ overflow_checks \in (IF backend = "Sixel" THEN BOOLEAN ELSE { FALSE })
    /\ call = Idle
    /\ result = "Ok"
    /\ written = << >>
    /\ environ = BareEnvironment
    /\ OuterInit

Callable == call = Idle

ApplyDowngrading(op, a, out) ==
    /\ line_buffer' = out.line_buffer
    /\ escape_buffer' = out.escape_buffer
    /\ animation_initialized' = out.animation_initialized
    /\ call' = [ op |-> op, arg |-> a, before |-> Before ]
    /\ result' = out.res
    /\ written' = out.written
    /\ backend' = IF out.res = "Ok" THEN backend ELSE "Blocks"
    /\ UNCHANGED outer
    /\ UNCHANGED << in_tmux, animation_image_id, tmux_pane_offset, overflow_checks >>
Apply(op, a, out) ==
    /\ line_buffer' = out.line_buffer
    /\ escape_buffer' = out.escape_buffer
    /\ animation_initialized' = out.animation_initialized
    /\ call' = [ op |-> op, arg |-> a, before |-> Before ]
    /\ result' = out.res
    /\ written' = out.written
    /\ UNCHANGED outer
    /\ UNCHANGED << backend, in_tmux, animation_image_id, tmux_pane_offset, overflow_checks >>

RenderImage ==
    /\ Callable
    /\ \E a \in RenderArgs(3) :
         Apply("render_image", a,
               render_image(ImageData(a.img, 3), a.img.width, a.img.height, a.col, a.row,
                            a.width_cells, a.height_cells, a.w, a.env))

RenderImageRgba ==
    /\ Callable
    /\ \E a \in RenderArgs(4) :
         Apply("render_image_rgba", a,
               render_image_rgba(ImageData(a.img, 4), a.img.width, a.img.height, a.col, a.row,
                                 a.width_cells, a.height_cells, a.w, a.env))

\* ImageRenderer::reset_animation
reset_animation_toggles ==
    /\ animation_image_id' = None
    /\ animation_initialized' = ~animation_initialized
reset_animation ==
    /\ animation_image_id' = None
    /\ animation_initialized' = FALSE

DeleteAllImages ==
    /\ Callable
    /\ \E w \in { GoodWriter } \cup FailingWriters :
         LET out == delete_all_images(w)
         IN  /\ reset_animation
             /\ call' = [ op |-> "delete_all_images", arg |-> [ w |-> w ], before |-> Before ]
             /\ result' = IF out.ok THEN "Ok" ELSE "IoError"
             /\ written' = out.written
             /\ UNCHANGED outer
             /\ UNCHANGED << backend, in_tmux, line_buffer, escape_buffer, tmux_pane_offset,
                             overflow_checks >>

\* the caller of delete_all_images calls it again as soon as it has returned Ok;
\* the record of the second call keeps what the first one wrote
DeleteAllImagesAgain ==
    /\ call # Idle
    /\ call.op = "delete_all_images"
    /\ result = "Ok"
    /\ \E w \in { GoodWriter } \cup FailingWriters :
         LET out == delete_all_images(w)
         IN  /\ reset_animation
             /\ call' = [ op |-> "delete_all_images", arg |-> [ w |-> w ], before |-> Before,
                          first |-> [ written |-> written ] ]
             /\ result' = IF out.ok THEN "Ok" ELSE "IoError"
             /\ written' = out.written
             /\ UNCHANGED outer
             /\ UNCHANGED << backend, in_tmux, line_buffer, escape_buffer, tmux_pane_offset,
                             overflow_checks >>

ResetAnimation ==
    /\ Callable
    /\ reset_animation
    /\ call' = [ op |-> "reset_animation", before |-> Before ]
    /\ result' = "Ok"
    /\ written' = << >>
    /\ UNCHANGED outer
    /\ UNCHANGED << backend, in_tmux, line_buffer, escape_buffer, tmux_pane_offset,
                    overflow_checks >>

\* ImageRenderer::refresh_pane_info
RefreshPaneInfoOutsideTmux ==
    /\ Callable
    /\ tmux_pane_offset' \in PaneOffsets
    /\ call' = [ op |-> "refresh_pane_info", before |-> Before ]
    /\ result' = "Ok"
    /\ written' = << >>
    /\ UNCHANGED outer
    /\ UNCHANGED << backend, in_tmux, line_buffer, escape_buffer, animation_image_id,
                    animation_initialized, overflow_checks >>
RefreshPaneInfo ==
    /\ Callable
    /\ IF in_tmux THEN tmux_pane_offset' \in PaneOffsets ELSE UNCHANGED tmux_pane_offset
    /\ call' = [ op |-> "refresh_pane_info", before |-> Before ]
    /\ result' = "Ok"
    /\ written' = << >>
    /\ UNCHANGED outer
    /\ UNCHANGED << backend, in_tmux, line_buffer, escape_buffer, animation_image_id,
                    animation_initialized, overflow_checks >>

\* ImageRenderer::set_unicode_placeholders(_enabled): an empty body
SetUnicodePlaceholders ==
    /\ Callable
    /\ \E enabled \in BOOLEAN :
         call' = [ op |-> "set_unicode_placeholders", arg |-> [ enabled |-> enabled ],
                   before |-> Before ]
    /\ result' = "Ok"
    /\ written' = << >>
    /\ UNCHANGED outer
    /\ UNCHANGED << backend, in_tmux, line_buffer, escape_buffer, animation_image_id,
                    animation_initialized, tmux_pane_offset, overflow_checks >>

\* the call returns to its caller; a panic unwinds instead and no further
\* call is made on the renderer
Return ==
    /\ call # Idle
    /\ result # "Panic"
    /\ call' = Idle
    /\ result' = "Ok"
    /\ written' = << >>
    /\ UNCHANGED outer
    /\ UNCHANGED << backend, in_tmux, line_buffer, escape_buffer, animation_image_id,
                    animation_initialized, tmux_pane_offset, overflow_checks >>

Next ==
    \/ RenderImage
    \/ RenderImageRgba
    \/ DeleteAllImages
    \/ DeleteAllImagesAgain
    \/ ResetAnimation
    \/ RefreshPaneInfo
    \/ SetUnicodePlaceholders
    \/ Return

Spec == Init /\ [][Next]_vars

-----------------------------------------------------------------------------
(* Backend detection: Renderer::new() in an environment.  The renderer is   *)
(* built with the backend GraphicsBackend::detect() returns; detect can be  *)
(* called again at any time and reads the same environment.                 *)

\* Renderer::new: ImageRenderer::new(GraphicsBackend::detect(), in_tmux)
InitDetect ==
    /\ environ \in Environments
    /\ backend = detect
    /\ in_tmux \in BOOLEAN
    /\ line_buffer = << >>
    /\ escape_buffer = << >>
    /\ animation_image_id = None
    /\ animation_initialized = FALSE
    /\ tmux_pane_offset = NoOffset
    /\ overflow_checks = FALSE
    /\ call = Idle
    /\ result = "Ok"
    /\ written = << >>
    /\ OuterInit

\* GraphicsBackend::detect()
Detect ==
    /\ Callable
    /\ call' = [ op |-> "detect" ]
    /\ result' = detect
    /\ written' = << >>
    /\ UNCHANGED outer
    /\ UNCHANGED << backend, in_tmux, line_buffer, escape_buffer, animation_image_id,
                    animation_initialized, tmux_pane_offset, overflow_checks >>

NextDetect ==
    \/ Detect
    \/ Return

SpecDetect == InitDetect /\ [][NextDetect]_vars

-----------------------------------------------------------------------------
(* render.rs: Renderer.  Its calls write into its own BufWriter; a frame is *)
(* begin_frame, draw calls, end_frame.                                      *)

\* Renderer::with_backend(backend), or Renderer::new
InitRenderer ==
    /\ backend \in Backends
    /\ in_tmux \in BOOLEAN
    /\ line_buffer = << >>
    /\ escape_buffer = << >>
    /\ animation_image_id = None
    /\ animation_initialized = FALSE
    /\ tmux_pane_offset = NoOffset
    /\ overflow_checks = FALSE
    /\ call = Idle
    /\ result = "Ok"
    /\ written = << >>
    /\ environ = BareEnvironment
    /\ OuterInit

\* every call returns io::Result and the caller passes an error on with `?`:
\* the next call is made after a call that returned Ok
RendererCallable == result = "Ok" /\ ncalls < MaxCalls

\* the call made before this one
PrevCall ==
    IF call.op = "set_unicode_placeholders"
    THEN [ op |-> call.op, enabled |-> call.arg.enabled ]
    ELSE [ op |-> call.op ]

\* what a Renderer call found
RendererBefore ==
    [ animation_initialized |-> animation_initialized,
      animation_image_id |-> animation_image_id,
      dirty |-> dirty, buffered |-> Len(buffered), output |-> Len(output),
      prev |-> PrevCall ]

\* the bookkeeping every Renderer call shares
Called(op, arg, res, accepted, bw) ==
    /\ call' = [ op |-> op, arg |-> arg, before |-> RendererBefore ]
    /\ result' = res
    /\ written' = accepted
    /\ buffered' = bw.buffered
    /\ output' = bw.output
    /\ taken' = taken \o Concat(accepted)
    /\ ncalls' = ncalls + 1
    /\ UNCHANGED << backend, in_tmux, tmux_pane_offset, overflow_checks, environ, focus,
                    scroll >>

\* let w = width_cells.unwrap_or((width / 10) as u16); likewise h
EstimatedCells(a) ==
    << IF a.width_cells = None THEN AsU16(a.img.width \div 10) ELSE a.width_cells,
       IF a.height_cells = None THEN AsU16(a.img.height \div 20) ELSE a.height_cells >>

\* self.image_renderer.render_image{,_rgba}(&mut self.writer, ..)
RenderInto(channels, a, w) ==
    IF channels = 3
    THEN render_image(ImageData(a.img, 3), a.img.width, a.img.height, a.col, a.row,
                      a.width_cells, a.height_cells, w, a.env)
    ELSE render_image_rgba(ImageData(a.img, 4), a.img.width, a.img.height, a.col, a.row,
                           a.width_cells, a.height_cells, w, a.env)

\* Renderer::render_image and Renderer::render_image_rgba
RendererRender(op, channels) ==
    /\ RendererCallable
    /\ \E a \in RendererArgs(channels) :
       \E unhindered \in { RenderInto(channels, a, GoodWriter) } :
       \E stdout_ok \in BOOLEAN :
       \E run \in { BufRun(unhindered.written, BufWriter(buffered, output), stdout_ok) } :
       \E out \in { IF run.failed_at = 0 THEN unhindered
                     ELSE RenderInto(channels, a, WriterFor(run)) } :
         LET cells == EstimatedCells(a)
         IN  /\ dirty' = mark_region(dirty, a.col, a.row, cells[1], cells[2])
             /\ marked' = Append(marked, Rect(a.col, a.row, cells[1], cells[2]))
             /\ line_buffer' = out.line_buffer
             /\ escape_buffer' = out.escape_buffer
             /\ animation_initialized' = out.animation_initialized
             /\ Called(op, a, out.res, out.written, run)
             /\ UNCHANGED << animation_image_id, frame_start >>

RendererRenderImage == RendererRender("render_image", 3)
RendererRenderImageRgba == RendererRender("render_image_rgba", 4)

\* Renderer::clear_images
ClearImages ==
    /\ RendererCallable
    /\ \E stdout_ok \in BOOLEAN :
       \E run \in { BufRun(delete_all_images(GoodWriter).written,
                            BufWriter(buffered, output), stdout_ok) } :
       \E out \in { delete_all_images(WriterFor(run)) } :
         /\ reset_animation
         /\ Called("clear_images", [ op |-> "clear_images" ],
                   IF out.ok THEN "Ok" ELSE "IoError", out.written, run)
         /\ UNCHANGED << line_buffer, escape_buffer, dirty, marked, frame_start >>

\* Renderer::set_unicode_placeholders, called on the new renderer before
\* anything is drawn
RendererSetUnicodePlaceholders ==
    /\ RendererCallable
    /\ ncalls = 0
    /\ \E enabled \in BOOLEAN :
         Called("set_unicode_placeholders", [ enabled |-> enabled ], "Ok", << >>,
                BufWriter(buffered, output))
    /\ UNCHANGED << line_buffer, escape_buffer, animation_image_id, animation_initialized,
                    dirty, marked, frame_start >>

\* Renderer::begin_frame_with_options (begin_frame passes true):
\* hide_cursor()?; if clear_graphics { clear_images()? }
BeginFrame ==
    /\ RendererCallable
    /\ \E clear_graphics \in BOOLEAN, stdout_ok \in BOOLEAN :
       \E ws \in { << HideCursor >>
                    \o (IF clear_graphics THEN delete_all_images(GoodWriter).written
                        ELSE << >>) } :
       \E run \in { BufRun(ws, BufWriter(buffered, output), stdout_ok) } :
         LET done == IF run.failed_at = 0 THEN Len(ws) ELSE run.failed_at - 1
         IN  /\ IF clear_graphics /\ run.failed_at # 1
                THEN reset_animation
                ELSE UNCHANGED << animation_image_id, animation_initialized >>
             /\ frame_start' = Len(taken)
             /\ Called("begin_frame",
                       [ clear_graphics |-> clear_graphics ],
                       IF run.failed_at = 0 THEN "Ok" ELSE "IoError",
                       SubSeq(ws, 1, done), run)
             /\ UNCHANGED << line_buffer, escape_buffer, dirty, marked >>

\* Renderer::end_frame: show_cursor()?; flush()?; clear_dirty()
EndFrame ==
    /\ RendererCallable
    /\ \E stdout_ok \in BOOLEAN :
       \E shown \in { BufRun(<< ShowCursor >>, BufWriter(buffered, output), stdout_ok) } :
       \E flushed \in { BufFlush(shown, stdout_ok) } :
         LET ok == shown.failed_at = 0 /\ flushed.failed_at = 0
         IN  /\ dirty' = IF ok THEN clear(dirty) ELSE dirty
             /\ marked' = IF ok THEN << >> ELSE marked
             /\ Called("end_frame", [ op |-> "end_frame" ],
                       IF ok THEN "Ok" ELSE "IoError",
                       IF shown.failed_at = 0 THEN << ShowCursor >> ELSE << >>,
                       IF shown.failed_at = 0 THEN flushed ELSE shown)
             /\ UNCHANGED << line_buffer, escape_buffer, animation_image_id,
                             animation_initialized, frame_start >>

NextRenderer ==
    \/ BeginFrame
    \/ RendererRenderImage
    \/ RendererRenderImageRgba
    \/ ClearImages
    \/ RendererSetUnicodePlaceholders
    \/ EndFrame

SpecRenderer == InitRenderer /\ [][NextRenderer]_vars

-----------------------------------------------------------------------------
(* render.rs: DirtyRegion on its own, as Renderer::mark_dirty, clear_dirty  *)
(* and dirty_region().intersects(..) reach it.                              *)

\* DirtyRegion::new() in either build profile
InitDirty ==
    /\ backend = "Blocks"
    /\ in_tmux = FALSE
    /\ line_buffer = << >>
    /\ escape_buffer = << >>
    /\ animation_image_id = None
    /\ animation_initialized = FALSE
    /\ tmux_pane_offset = NoOffset
    /\ overflow_checks \in BOOLEAN
    /\ call = Idle
    /\ result = "Ok"
    /\ written = << >>
    /\ environ = BareEnvironment
    /\ OuterInit

\* what a DirtyRegion call leaves alone
DirtyFrame ==
    UNCHANGED << backend, in_tmux, line_buffer, escape_buffer, animation_image_id,
                 animation_initialized, tmux_pane_offset, overflow_checks, written,
                 environ, buffered, output, taken, frame_start, focus, scroll, ncalls >>

\* DirtyRegion::mark_region(col, row, width, height)
MarkRegion ==
    /\ result # "Panic"
    /\ Len(marked) < MaxMarks
    /\ \E r \in Rects :
         /\ call' = [ op |-> "mark_region", arg |-> r, before |-> dirty ]
         /\ IF mark_region_panics(r.col, r.row, r.width, r.height)
            THEN /\ result' = "Panic"
                 /\ UNCHANGED << dirty, marked >>
            ELSE /\ result' = "Ok"
                 /\ dirty' = mark_region(dirty, r.col, r.row, r.width, r.height)
                 /\ marked' = Append(marked, r)
    /\ DirtyFrame

\* DirtyRegion::clear()
Clear ==
    /\ result # "Panic"
    /\ call' = [ op |-> "clear", before |-> dirty ]
    /\ result' = "Ok"
    /\ dirty' = clear(dirty)
    /\ marked' = << >>
    /\ DirtyFrame

\* DirtyRegion::intersects(col, row, width, height)
Intersects ==
    /\ result # "Panic"
    /\ \E r \in Rects :
         /\ call' = [ op |-> "intersects", arg |-> r, before |-> dirty ]
         /\ result' = IF intersects_panics(dirty, r.col, r.row, r.width, r.height)
                      THEN "Panic"
                      ELSE IF intersects(dirty, r.col, r.row, r.width, r.height)
                      THEN "true"
                      ELSE "false"
    /\ UNCHANGED << dirty, marked >>
    /\ DirtyFrame

NextDirty ==
    \/ MarkRegion
    \/ Clear
    \/ Intersects

SpecDirty == InitDirty /\ [][NextDirty]_vars

-----------------------------------------------------------------------------
(* A FocusManager under its callers: components are registered with any    *)
(* focusable flag and tab index, unregistered, focused and navigated.  The  *)
(* calls that move the focus record the manager they were made on.          *)

MaxTabIndex == 1
ComponentIds == { "a", "b", "c" }
FocusableInfos ==
    { FocusableInfo(id, focusable, tab_index) :
        id \in ComponentIds, focusable \in BOOLEAN, tab_index \in 0..MaxTabIndex }
FocusDirections == { "Next", "Previous", "Up", "Down", "Left", "Right" }

InitFocus ==
    /\ backend = "Blocks"
    /\ in_tmux = FALSE
    /\ line_buffer = << >>
    /\ escape_buffer = << >>
    /\ animation_image_id = None
    /\ animation_initialized = FALSE
    /\ tmux_pane_offset = NoOffset
    /\ overflow_checks = FALSE
    /\ call = Idle
    /\ result = "Ok"
    /\ written = << >>
    /\ environ = BareEnvironment
    /\ OuterInit

FocusFrame ==
    UNCHANGED << backend, in_tmux, line_buffer, escape_buffer, animation_image_id,
                 animation_initialized, tmux_pane_offset, overflow_checks, written,
                 environ, dirty, buffered, output, taken, frame_start, marked, scroll,
                 ncalls >>

BoolResult(b) == IF b THEN "true" ELSE "false"

\* FocusManager::register(id)
Register ==
    /\ \E id \in ComponentIds :
         /\ call' = [ op |-> "register", arg |-> id ]
         /\ focus' = register(focus, id)
    /\ result' = "Ok"
    /\ FocusFrame

\* FocusManager::register_with_info(info)
RegisterWithInfo ==
    /\ \E info \in FocusableInfos :
         /\ call' = [ op |-> "register_with_info", arg |-> info ]
         /\ focus' = register_with_info(focus, info)
    /\ result' = "Ok"
    /\ FocusFrame

\* FocusManager::unregister(id)
Unregister ==
    /\ \E id \in ComponentIds :
         /\ call' = [ op |-> "unregister", arg |-> id ]
         /\ focus' = unregister(focus, id)
    /\ result' = "Ok"
    /\ FocusFrame

\* FocusManager::focus(id)
Focus ==
    /\ \E id \in ComponentIds :
         \E moved \in { focus_id(focus, id) } :
             /\ call' = [ op |-> "focus", arg |-> id, before |-> focus ]
             /\ focus' = moved.f
             /\ result' = BoolResult(moved.ret)
    /\ FocusFrame

\* FocusManager::blur()
Blur ==
    /\ call' = [ op |-> "blur", before |-> focus ]
    /\ focus' = blur(focus)
    /\ result' = "Ok"
    /\ FocusFrame

\* FocusManager::focus_next()
FocusNext ==
    /\ \E moved \in { focus_next(focus) } :
         /\ call' = [ op |-> "focus_next", before |-> focus ]
         /\ focus' = moved.f
         /\ result' = BoolResult(moved.ret)
    /\ FocusFrame

\* FocusManager::focus_prev()
FocusPrev ==
    /\ \E moved \in { focus_prev(focus) } :
         /\ call' = [ op |-> "focus_prev", before |-> focus ]
         /\ focus' = moved.f
         /\ result' = BoolResult(moved.ret)
    /\ FocusFrame

\* FocusManager::move_focus(direction)
MoveFocus ==
    /\ \E direction \in FocusDirections :
         \E moved \in { move_focus(focus, direction) } :
             /\ call' = [ op |-> "move_focus", arg |-> direction, before |-> focus ]
             /\ focus' = moved.f
             /\ result' = BoolResult(moved.ret)
    /\ FocusFrame

\* FocusManager::set_wrap_around(wrap)
SetWrapAround ==
    /\ \E wrap \in BOOLEAN :
         /\ call' = [ op |-> "set_wrap_around", arg |-> wrap ]
         /\ focus' = set_wrap_around(focus, wrap)
    /\ result' = "Ok"
    /\ FocusFrame

NextFocus ==
    \/ Register
    \/ RegisterWithInfo
    \/ Unregister
    \/ Focus
    \/ Blur
    \/ FocusNext
    \/ FocusPrev
    \/ MoveFocus
    \/ SetWrapAround

SpecFocus == InitFocus /\ [][NextFocus]_vars

-----------------------------------------------------------------------------
(* A ScrollableView under its callers: it is scrolled to any position and   *)
(* its content is resized.                                                  *)

MaxContent == 3
MaxScroll == 4

InitScroll ==
    /\ backend = "Blocks"
    /\ in_tmux = FALSE
    /\ line_buffer = << >>
    /\ escape_buffer = << >>
    /\ animation_image_id = None
    /\ animation_initialized = FALSE
    /\ tmux_pane_offset = NoOffset
    /\ overflow_checks = FALSE
    /\ call = Idle
    /\ result = "Ok"
    /\ written = << >>
    /\ environ = BareEnvironment
    /\ dirty = DirtyRegionNew
    /\ buffered = << >>
    /\ output = << >>
    /\ taken = << >>
    /\ frame_start = None
    /\ marked = << >>
    /\ focus = FocusManagerNew
    /\ \E content_width \in 0..MaxContent, content_height \in 0..MaxContent :
         scroll = ScrollableViewNew(content_width, content_height)
    /\ ncalls = 0

ScrollFrame ==
    UNCHANGED << backend, in_tmux, line_buffer, escape_buffer, animation_image_id,
                 animation_initialized, tmux_pane_offset, overflow_checks, written,
                 environ, dirty, buffered, output, taken, frame_start, marked, focus,
                 ncalls >>

\* ScrollableView::scroll_to(x, y)
ScrollTo ==
    /\ \E x \in 0..MaxScroll, y \in 0..MaxScroll :
         /\ call' = [ op |-> "scroll_to", arg |-> << x, y >>, before |-> scroll ]
         /\ scroll' = scroll_to(scroll, x, y)
    /\ result' = "Ok"
    /\ ScrollFrame

\* ScrollableView::set_content_size(width, height)
SetContentSize ==
    /\ \E width \in 0..MaxContent, height \in 0..MaxContent :
         /\ call' = [ op |-> "set_content_size", arg |-> << width, height >>,
                      before |-> scroll ]
         /\ scroll' = set_content_size(scroll, width, height)
    /\ result' = "Ok"
    /\ ScrollFrame

NextScroll ==
    \/ ScrollTo
    \/ SetContentSize

SpecScroll == InitScroll /\ [][NextScroll]_vars

-----------------------------------------------------------------------------
(* Reading the output back, as a terminal (and tmux) would *)

StartsWith(s, p) == Len(s) >= Len(p) /\ SubSeq(s, 1, Len(p)) = p
EndsWith(s, p) == Len(s) >= Len(p) /\ SubSeq(s, Len(s) - Len(p) + 1, Len(s)) = p

RECURSIVE EscRunBefore(_, _)
\* how many ESC bytes end at position i of s
EscRunBefore(s, i) == IF i = 0 \/ s[i] # ESC THEN 0 ELSE 1 + EscRunBefore(s, i - 1)

\* tmux passthrough decoding: of every pair of ESC bytes one is dropped
Undouble(s) ==
    LET at   == [ i \in 1..Len(s) |-> << s[i], s[i] # ESC \/ EscRunBefore(s, i) % 2 = 1 >> ]
        kept == SelectSeq(at, LAMBDA p : p[2])
    IN  [ i \in 1..Len(kept) |-> kept[i][1] ]

IsTmuxWrapped(s) ==
    /\ Len(s) >= 9
    /\ StartsWith(s, << 27, 80, 116, 109, 117, 120, 59 >>)
    /\ EndsWith(s, << 27, 92 >>)
TmuxPayload(s) == SubSeq(s, 8, Len(s) - 2)

\* an APC graphics command ESC _G <control> [; <payload>] ESC \
IsApc(s) ==
    /\ Len(s) >= 5
    /\ StartsWith(s, << 27, 95, 71 >>)
    /\ EndsWith(s, << 27, 92 >>)
ApcBody(s) == SubSeq(s, 4, Len(s) - 2)
ApcSplit(s) ==
    LET semis == { i \in 1..Len(ApcBody(s)) : ApcBody(s)[i] = 59 }
    IN  IF semis = {} THEN Len(ApcBody(s)) + 1 ELSE SetMin(semis)
ApcControl(s) == SubSeq(ApcBody(s), 1, ApcSplit(s) - 1)
ApcPayload(s) == SubSeq(ApcBody(s), ApcSplit(s) + 1, Len(ApcBody(s)))

\* the value of key=value in comma-separated control data; << >> when absent
ParamValue(ctrl, key) ==
    LET starts == { i \in 1..(Len(ctrl) - 1) :
                      /\ ctrl[i] = key /\ ctrl[i + 1] = 61
                      /\ (i = 1 \/ ctrl[i - 1] = 44) }
        i0     == SetMin(starts)
        commas == { j \in (i0 + 2)..Len(ctrl) : ctrl[j] = 44 }
    IN  IF starts = {} THEN << >>
        ELSE SubSeq(ctrl, i0 + 2, IF commas = {} THEN Len(ctrl) ELSE SetMin(commas) - 1)
HasParam(ctrl, key) == ParamValue(ctrl, key) # << >>

\* the graphics commands among a call's completed writes, tmux wrapping removed
IsGraphicsWrite(s) == IsApc(s) \/ (IsTmuxWrapped(s) /\ IsApc(Undouble(TmuxPayload(s))))
Unwrapped(s) == IF IsTmuxWrapped(s) THEN Undouble(TmuxPayload(s)) ELSE s
GraphicsCommands(ws) ==
    LET sel == SelectSeq(ws, IsGraphicsWrite)
    IN  [ i \in 1..Len(sel) |-> Unwrapped(sel[i]) ]

B64Val(c) ==
    IF c >= 65 /\ c <= 90 THEN c - 65
    ELSE IF c >= 97 /\ c <= 122 THEN c - 71
    ELSE IF c >= 48 /\ c <= 57 THEN c + 4
    ELSE IF c = 43 THEN 62
    ELSE IF c = 47 THEN 63
    ELSE -1

\* canonical standard base64: groups of four, '=' only as the last one or two
IsBase64(cs) ==
    /\ Len(cs) % 4 = 0
    /\ \A i \in 1..Len(cs) :
         \/ B64Val(cs[i]) >= 0
         \/ cs[i] = 61 /\ i >= Len(cs) - 1 /\ cs[Len(cs)] = 61

\* base64 decoding of a canonical string
Base64Decode(cs) ==
    LET n    == Len(cs)
        pads == IF n = 0 THEN 0
                ELSE IF cs[n] # 61 THEN 0 ELSE IF cs[n - 1] # 61 THEN 1 ELSE 2
        v(k) == IF cs[k] = 61 THEN 0 ELSE B64Val(cs[k])
    IN  [ i \in 1..(3 * (n \div 4) - pads) |->
            LET g == (i - 1) \div 3
                p == (i - 1) % 3
            IN  CASE p = 0 -> v(4 * g + 1) * 4 + (v(4 * g + 2) \div 16)
                  [] p = 1 -> (v(4 * g + 2) % 16) * 16 + (v(4 * g + 3) \div 4)
                  [] p = 2 -> (v(4 * g + 3) % 4) * 64 + v(4 * g + 4) ]

-----------------------------------------------------------------------------
(* The call a state records *)

IsRender == call # Idle /\ call.op \in { "render_image", "render_image_rgba" }
Channels == IF call.op = "render_image" THEN 3 ELSE 4
CallData == ImageData(call.arg.img, Channels)
CallPng ==
    to_png(call.arg.img.width, call.arg.img.height, Channels, CallData, call.arg.env.enc_err)
KittyRender == IsRender /\ backend = "Kitty"
KittyRenderOk == KittyRender /\ result = "Ok"

\* length of the base64 text of n bytes
Base64Len(n) == 4 * DivCeil(n, 3)
\* the cell size the Kitty encoder uses for the call
CallCols == IF call.arg.width_cells = None THEN 40 ELSE call.arg.width_cells
CallRows == IF call.arg.height_cells = None THEN 10 ELSE call.arg.height_cells
\* the m flag of a command's control data
MFlag(cmd) == ParamValue(ApcControl(cmd), 109)

\* the commands of the call and their payloads, in emission order
CallCommands == GraphicsCommands(written)
CallPayloads == [ k \in 1..Len(CallCommands) |-> ApcPayload(CallCommands[k]) ]
\* the k-th 4096-byte slice of a string
Slice(s, k) == SubSeq(s, (k - 1) * 4096 + 1, Min(k * 4096, Len(s)))
\* number of chunks the claims expect for the call's PNG
ExpectedChunks == DivCeil(Base64Len(Len(CallPng.png)), 4096)

-----------------------------------------------------------------------------
(* Claims *)

\* C1: a successful Kitty render (direct or placeholder mode) whose base64
\* payload has length L > 0 emits exactly ceil(L / 4096) chunks; every chunk
\* but the last carries m=1 and the last carries m=0.
C1_ChunkCountAndFlags ==
    KittyRenderOk =>
        LET L == Base64Len(Len(CallPng.png))
            n == DivCeil(L, 4096)
        IN  L > 0 =>
              /\ Len(CallCommands) = n
              /\ \A k \in 1..(n - 1) : MFlag(CallCommands[k]) = << 49 >>
              /\ MFlag(CallCommands[n]) = << 48 >>

C1_Witness ==
    /\ KittyRenderOk
    /\ in_tmux
    /\ Len(CallCommands) = 3

\* C2: the chunk payloads of a successful Kitty render, concatenated in
\* emission order, are the standard base64 text of the PNG bytes (decoding
\* gives the PNG back); every payload is at most 4096 bytes and every payload
\* but the last is exactly 4096 bytes.
C2_PayloadIsBase64OfPng ==
    KittyRenderOk =>
        LET text == Concat(CallPayloads)
        IN  /\ IsBase64(text)
            /\ Base64Decode(text) = CallPng.png
            /\ \A k \in 1..Len(CallPayloads) : Len(CallPayloads[k]) <= 4096
            /\ \A k \in 1..(Len(CallPayloads) - 1) : Len(CallPayloads[k]) = 4096

C2_Witness ==
    /\ KittyRenderOk
    /\ ~in_tmux
    /\ Len(CallPayloads) = 2
    /\ Len(CallPng.png) % 3 = 2

\* the pixels render_sixel is given by the call
SixelCallPixels == IF Channels = 3 THEN CallData ELSE DropAlpha(CallData)

\* C3: with in_tmux, every graphics escape sequence (each Kitty chunk, the
\* delete command, the Sixel stream) is written as ESC P tmux; <payload> ESC \
\* where the payload is the sequence with every ESC doubled: twice as many ESC
\* bytes, and un-doubling restores the sequence; a Kitty render has as many
\* wrappers as chunks; without in_tmux no wrapper is written.
C3_TmuxWrapping ==
    /\ ~in_tmux =>
         \A k \in 1..Len(written) :
            ~StartsWith(written[k], << 27, 80, 116, 109, 117, 120, 59 >>)
    /\ (in_tmux /\ call # Idle /\ result = "Ok") =>
         /\ \A k \in 1..Len(written) :
              /\ ~IsApc(written[k])
              /\ ~StartsWith(written[k], << 27, 80, 113 >>)
              /\ StartsWith(written[k], << 27, 80 >>) =>
                   /\ IsTmuxWrapped(written[k])
                   /\ EscCount(TmuxPayload(written[k]))
                        = 2 * EscCount(Undouble(TmuxPayload(written[k])))
         /\ KittyRender =>
              /\ Cardinality({ k \in 1..Len(written) : IsTmuxWrapped(written[k]) })
                   = ExpectedChunks
              /\ Len(CallCommands) = ExpectedChunks
              /\ \A k \in 1..ExpectedChunks :
                   /\ IsTmuxWrapped(written[k])
                   /\ IsApc(Undouble(TmuxPayload(written[k])))
                   /\ EscCount(Undouble(TmuxPayload(written[k]))) = 2
                   /\ ApcPayload(Undouble(TmuxPayload(written[k])))
                        = Slice(Concat(CallPayloads), k)
         /\ (call.op = "delete_all_images" /\ backend = "Kitty") =>
              /\ Len(written) = 1
              /\ IsTmuxWrapped(written[1])
              /\ Undouble(TmuxPayload(written[1]))
                   = << 27, 95, 71, 97, 61, 100, 44, 100, 61, 73, 44, 105, 61, 49,
                        44, 113, 61, 50, 27, 92 >>
         /\ (IsRender /\ backend = "Sixel") =>
              /\ Len(written) = 2
              /\ IsTmuxWrapped(written[2])
              /\ Undouble(TmuxPayload(written[2]))
                   = encode_sixel(SixelCallPixels, call.arg.img.width, call.arg.img.height)

C3_Witness ==
    /\ KittyRenderOk
    /\ in_tmux
    /\ Cardinality({ k \in 1..Len(written) : IsTmuxWrapped(written[k]) }) = 3

\* "a=T,f=100,t=d,i=1,c=<cols>,r=<rows>" followed by tail
ControlHead(cols, rows, tail) ==
    << 97, 61, 84, 44, 102, 61, 49, 48, 48, 44, 116, 61, 100, 44, 105, 61, 49, 44, 99, 61 >>
    \o Dec(cols) \o << 44, 114, 61 >> \o Dec(rows) \o tail

\* C4: the control data of the first chunk is exactly
\* a=T,f=100,t=d,i=1,c=<cols>,r=<rows>,C=1,q=2,m=<m> in direct mode and
\* a=T,f=100,t=d,i=1,c=<cols>,r=<rows>,U=1,q=2,m=<m> in placeholder mode, for
\* the requested cell size; every later chunk carries only m=<m>.
C4_ControlData ==
    (KittyRenderOk /\ call.arg.width_cells # None /\ call.arg.height_cells # None) =>
        LET head == ControlHead(call.arg.width_cells, call.arg.height_cells,
                                IF in_tmux
                                THEN << 44, 85, 61, 49, 44, 113, 61, 50, 44, 109, 61 >>
                                ELSE << 44, 67, 61, 49, 44, 113, 61, 50, 44, 109, 61 >>)
        IN  /\ Len(CallCommands) >= 1
            /\ ApcControl(CallCommands[1]) \in { head \o << 48 >>, head \o << 49 >> }
            /\ \A k \in 2..Len(CallCommands) :
                 ApcControl(CallCommands[k]) \in { << 109, 61, 48 >>, << 109, 61, 49 >> }

C4_Witness ==
    /\ KittyRenderOk
    /\ ~in_tmux
    /\ call.arg.width_cells = 2
    /\ call.arg.height_cells = 1
    /\ Len(CallCommands) = 3

\* C5: on the Kitty backend without in_tmux, a successful render writes the
\* cursor move ESC[<row+1>;<col+1>H and then the transmit chunks in order and
\* nothing else: no tmux wrapper, no placeholder glyph, no colour sequence; a
\* payload of at most 4096 bytes gives exactly one a=T command, with m=0.
C5_DirectModeBytes ==
    (KittyRenderOk /\ ~in_tmux) =>
        LET n == ExpectedChunks
        IN  /\ Len(written) = n + 1
            /\ written[1] = << 27, 91 >> \o Dec(call.arg.row + 1) \o << 59 >>
                            \o Dec(call.arg.col + 1) \o << 72 >>
            /\ \A k \in 2..(n + 1) :
                 /\ IsApc(written[k])
                 /\ EscCount(written[k]) = 2
                 /\ \A i \in 1..Len(written[k]) : written[k][i] < 128
            /\ Base64Decode(Concat([ k \in 1..n |-> ApcPayload(written[k + 1]) ]))
                 = CallPng.png
            /\ Cardinality({ k \in 2..(n + 1) :
                               ParamValue(ApcControl(written[k]), 97) = << 84 >> }) = 1
            /\ Base64Len(Len(CallPng.png)) <= 4096 =>
                 /\ n = 1
                 /\ ParamValue(ApcControl(written[2]), 97) = << 84 >>
                 /\ MFlag(written[2]) = << 48 >>

C5_Witness ==
    /\ KittyRenderOk
    /\ ~in_tmux
    /\ call.arg.col = MaxCol
    /\ call.arg.row = MaxRow
    /\ Len(written) = 2

\* the writes of a placeholder render after its chunks, cursor move and colour
\* and before the final colour reset
GridWrites == SubSeq(written, ExpectedChunks + 3, Len(written) - 1)
\* the glyph writes among them, in order
GridCells == SelectSeq(GridWrites, LAMBDA s : StartsWith(s, << 244, 142, 187, 174 >>))
\* position in GridWrites of the first write of row r
RowStart(r, cols) == IF r = 0 THEN 1 ELSE cols + (r - 1) * (cols + 1) + 1

\* C6: in placeholder mode with rows <= 256 and cols <= 256, exactly rows*cols
\* glyphs U+10EEEE are written row by row; the glyph of cell (r, c) is followed
\* by the table diacritic of r and then that of c; every row r > 0 is preceded
\* by a cursor move to (row+1+r, col+1); distinct cells get distinct diacritic
\* pairs, the indices 0..255 mapping one to one into the table.
C6_PlaceholderGrid ==
    (KittyRenderOk /\ in_tmux /\ CallRows <= 256 /\ CallCols <= 256) =>
        /\ Len(GridCells) = CallRows * CallCols
        /\ Len(GridWrites) = CallRows * CallCols + Max(CallRows - 1, 0)
        /\ \A r \in 0..(CallRows - 1), c \in 0..(CallCols - 1) :
             /\ GridCells[r * CallCols + c + 1]
                  = << 244, 142, 187, 174 >> \o Utf8(DIACRITICS[r + 1])
                    \o Utf8(DIACRITICS[c + 1])
             /\ GridWrites[RowStart(r, CallCols) + c + (IF r = 0 THEN 0 ELSE 1)]
                  = GridCells[r * CallCols + c + 1]
        /\ \A r \in 1..(CallRows - 1) :
             GridWrites[RowStart(r, CallCols)]
               = << 27, 91 >> \o Dec(call.arg.row + 1 + r) \o << 59 >>
                 \o Dec(call.arg.col + 1) \o << 72 >>
        /\ Cardinality({ GridCells[t] : t \in 1..Len(GridCells) }) = CallRows * CallCols
        /\ Cardinality({ Utf8(DIACRITICS[i + 1]) : i \in 0..255 }) = 256

C6_Witness ==
    /\ KittyRenderOk
    /\ in_tmux
    /\ CallRows = 256
    /\ CallCols = 1
    /\ Len(GridCells) = 256

\* C7: every Kitty transmit command carries image ID 1 and every delete
\* command targets ID 1, over any sequence of render and delete calls; a
\* second render before a clear reuses ID 1; no other ID is ever written,
\* the placeholder colour included.
C7_ImageIdAlwaysOne ==
    /\ \A k \in 1..Len(CallCommands) :
         LET ctrl == ApcControl(CallCommands[k])
         IN  /\ HasParam(ctrl, 97) => ParamValue(ctrl, 105) = << 49 >>
             /\ HasParam(ctrl, 105) => ParamValue(ctrl, 105) = << 49 >>
    /\ \A k \in 1..Len(written) :
         StartsWith(written[k], << 27, 91, 51, 56, 59 >>) =>
            written[k] = << 27, 91, 51, 56, 59, 53, 59, 49, 109 >>
    /\ KittyRenderOk => HasParam(ApcControl(CallCommands[1]), 97)
    /\ (call # Idle /\ call.op = "delete_all_images" /\ backend = "Kitty" /\ result = "Ok") =>
         /\ Len(CallCommands) = 1
         /\ ParamValue(ApcControl(CallCommands[1]), 97) = << 100 >>

C7_Witness ==
    /\ KittyRenderOk
    /\ call.before.animation_initialized
    /\ Len(CallCommands) >= 1
    /\ ParamValue(ApcControl(CallCommands[1]), 105) = << 49 >>

\* C8: on every backend render_image and render_image_rgba return an
\* invalid-buffer error whenever the buffer length differs from
\* width*height*channels.
C8_LengthMismatchIsError ==
    (IsRender /\ call.arg.img.len # call.arg.img.width * call.arg.img.height * Channels) =>
        result = "InvalidImageBuffer"

\* whether PNG encoding of the call's buffer fails
CallPngFails == ~CallPng.ok

\* C9: when PNG encoding fails on the Kitty backend the render returns the
\* error having written nothing, and animation_initialized is unchanged.
C9_PngFailureWritesNothing ==
    (KittyRender /\ CallPngFails) =>
        /\ result \in { "InvalidImageBuffer", "EncodingError" }
        /\ written = << >>
        /\ animation_initialized = call.before.animation_initialized

C9_Witness ==
    /\ KittyRender
    /\ CallPngFails
    /\ call.arg.w.budget = Unlimited
    /\ call.before.animation_initialized

\* writes a Kitty render or a delete attempts on a writer that never fails
KittyAttempts ==
    IF call.op = "delete_all_images" THEN 1
    ELSE IF in_tmux THEN ExpectedChunks + 3 + CallRows * CallCols + Max(CallRows - 1, 0)
    ELSE ExpectedChunks + 1

\* C10: if a write to the writer fails during render_image, render_image_rgba
\* or delete_all_images the call returns an error and writes nothing more; a
\* Kitty render failing at chunk k has written chunks 0..k-1, which stay
\* written, and does not set animation_initialized.
C10_WriteFailurePropagates ==
    (call # Idle /\ call.op \in { "render_image", "render_image_rgba", "delete_all_images" }
       /\ call.arg.w.budget # Unlimited) =>
        LET b == call.arg.w.budget
        IN  /\ result = "Ok" => Len(written) <= b
            /\ Len(written) <= b + 1
            /\ Len(written) = b + 1 =>
                 /\ result # "Ok"
                 /\ Len(written[b + 1]) <= call.arg.w.partial
            /\ (backend = "Kitty" /\ (IsRender => CallPng.ok) /\ b < KittyAttempts) =>
                 result = "IoError"
            /\ (KittyRender /\ result = "IoError") =>
                 /\ animation_initialized = call.before.animation_initialized
                 /\ Len(written) >= b
                 /\ LET first == IF in_tmux THEN 1 ELSE 2
                        sent  == Min(b - first + 1, ExpectedChunks)
                        text  == encode_base64(CallPng.png)
                    IN  \A k \in 1..sent :
                          /\ IsApc(Unwrapped(written[first + k - 1]))
                          /\ ApcPayload(Unwrapped(written[first + k - 1])) = Slice(text, k)

C10_Witness ==
    /\ KittyRender
    /\ ~in_tmux
    /\ result = "IoError"
    /\ call.arg.w.budget = 2
    /\ ExpectedChunks = 3
    /\ Len(written) = 3
    /\ IsApc(written[2])

\* C11: delete_all_images leaves animation_image_id = None and
\* animation_initialized = false on every backend, whatever its writer does;
\* on Kitty a writer that accepts the write receives exactly the delete command
\* ESC _G a=d,d=I,i=1,q=2 ESC \ (inside ESC P tmux; ... ESC \ with each ESC
\* doubled when in_tmux); on Framebuffer, Sixel and Blocks nothing is written
\* and the call returns Ok even with a writer that would fail.
DeleteCommandBytes ==
    << 27, 95, 71, 97, 61, 100, 44, 100, 61, 73, 44, 105, 61, 49, 44, 113, 61, 50, 27, 92 >>
DeleteCommandInTmux ==
    << 27, 80, 116, 109, 117, 120, 59,
       27, 27, 95, 71, 97, 61, 100, 44, 100, 61, 73, 44, 105, 61, 49, 44, 113, 61, 50,
       27, 27, 92, 27, 92 >>
IsDelete == call # Idle /\ call.op = "delete_all_images"
C11_DeleteResetsAndWritesOnKittyOnly ==
    IsDelete =>
        /\ animation_image_id = None
        /\ animation_initialized = FALSE
        /\ backend # "Kitty" => written = << >> /\ result = "Ok"
        /\ backend = "Kitty" /\ call.arg.w = GoodWriter =>
              /\ result = "Ok"
              /\ written = << IF in_tmux THEN DeleteCommandInTmux ELSE DeleteCommandBytes >>
        /\ backend = "Kitty" /\ call.arg.w # GoodWriter =>
              \/ result = "Ok" /\ call.arg.w.budget >= 1
              \/ result = "IoError" /\ call.arg.w.budget = 0

\* a delete on Kitty inside tmux that found animation_initialized set by an
\* earlier render and wrote the wrapped command
C11_Witness ==
    /\ IsDelete
    /\ backend = "Kitty"
    /\ in_tmux
    /\ call.before.animation_initialized
    /\ ~animation_initialized
    /\ written = << DeleteCommandInTmux >>

\* C12: a delete_all_images call made right after a delete_all_images call
\* that returned Ok succeeds whenever its writer accepts the write, finds
\* animation_image_id = None and animation_initialized = false and leaves them
\* so, and writes the same single delete command the first call wrote (nothing
\* on the backends where the first call wrote nothing).
IsSecondDelete == IsDelete /\ "first" \in DOMAIN call
C12_SecondDeleteIsNoOp ==
    IsSecondDelete =>
        /\ call.before.animation_image_id = None
        /\ call.before.animation_initialized = FALSE
        /\ animation_image_id = call.before.animation_image_id
        /\ animation_initialized = call.before.animation_initialized
        /\ call.arg.w = GoodWriter =>
              /\ result = "Ok"
              /\ written = call.first.written
              /\ Len(written) <= 1

\* a second delete on Kitty outside tmux: both calls wrote the bare command
C12_Witness ==
    /\ IsSecondDelete
    /\ backend = "Kitty"
    /\ call.arg.w = GoodWriter
    /\ result = "Ok"
    /\ written = << DeleteCommandBytes >>
    /\ call.first.written = << DeleteCommandBytes >>

\* C13: the backend Renderer::new selects, and the value every call of
\* GraphicsBackend::detect returns, is Framebuffer exactly when /dev/fb0 exists
\* and neither DISPLAY nor WAYLAND_DISPLAY is set; failing that, Kitty exactly
\* when KITTY_WINDOW_ID is set or TERM contains "kitty"; failing that, Sixel
\* exactly when TERM contains "mlterm" or "xterm" or TERM_PROGRAM contains
\* "iTerm"; failing that, Blocks.  TERM=xterm-kitty gives Kitty, and the
\* result is always one of the four backends.
Occurs(pat, v) ==
    /\ v.set
    /\ \E i \in 0..(Len(v.text) - Len(pat)) : \A j \in 1..Len(pat) : v.text[i + j] = pat[j]
WantFramebuffer ==
    environ.fb0_exists /\ ~environ.DISPLAY.set /\ ~environ.WAYLAND_DISPLAY.set
WantKitty ==
    environ.KITTY_WINDOW_ID.set \/ Occurs(<< 107, 105, 116, 116, 121 >>, environ.TERM)
WantSixel ==
    \/ Occurs(<< 109, 108, 116, 101, 114, 109 >>, environ.TERM)
    \/ Occurs(<< 120, 116, 101, 114, 109 >>, environ.TERM)
    \/ Occurs(<< 105, 84, 101, 114, 109 >>, environ.TERM_PROGRAM)
Detected(b) ==
    /\ b \in { "Framebuffer", "Kitty", "Sixel", "Blocks" }
    /\ b = "Framebuffer" <=> WantFramebuffer
    /\ b = "Kitty" <=> ~WantFramebuffer /\ WantKitty
    /\ b = "Sixel" <=> ~WantFramebuffer /\ ~WantKitty /\ WantSixel
    /\ b = "Blocks" <=> ~WantFramebuffer /\ ~WantKitty /\ ~WantSixel
C13_DetectPriority ==
    /\ Detected(backend)
    /\ call # Idle /\ call.op = "detect" => Detected(result)
    /\ (/\ ~WantFramebuffer
        /\ environ.TERM = SetTo(<< 120, 116, 101, 114, 109, 45, 107, 105, 116, 116, 121 >>))
       => backend = "Kitty"

\* detect called with TERM=xterm-kitty, no Kitty window id and a display set:
\* both the Kitty and the Sixel test match and Kitty is returned
C13_Witness ==
    /\ call # Idle
    /\ call.op = "detect"
    /\ result = "Kitty"
    /\ environ.fb0_exists
    /\ environ.DISPLAY.set
    /\ ~environ.KITTY_WINDOW_ID.set
    /\ WantSixel

\* C14: a render_image or render_image_rgba call that returns Ok on Kitty,
\* Sixel or Blocks and draws anything moves the cursor to row+1;col+1 (one of
\* its writes begins with ESC [ row+1 ; col+1 H), and when both cell sizes are
\* supplied the bytes written differ from those the same call writes with
\* other cell sizes.  (Fails: the Sixel encoder takes no cell size.)
CallWithCells(width_cells, height_cells) ==
    IF call.op = "render_image"
    THEN render_image(CallData, call.arg.img.width, call.arg.img.height, call.arg.col,
                      call.arg.row, width_cells, height_cells, call.arg.w, call.arg.env)
    ELSE render_image_rgba(CallData, call.arg.img.width, call.arg.img.height, call.arg.col,
                           call.arg.row, width_cells, height_cells, call.arg.w, call.arg.env)
CursorMove ==
    << 27, 91 >> \o Dec(call.arg.row + 1) \o << 59 >> \o Dec(call.arg.col + 1) \o << 72 >>
C14_PositionAndCellSizeHonoured ==
    (/\ IsRender
     /\ backend \in { "Kitty", "Sixel", "Blocks" }
     /\ result = "Ok"
     /\ call.arg.w = GoodWriter
     /\ written # << >>) =>
        /\ \E k \in 1..Len(written) : StartsWith(written[k], CursorMove)
        /\ (call.arg.width_cells # None /\ call.arg.height_cells # None) =>
              written # CallWithCells(call.arg.width_cells + 1, call.arg.height_cells + 1).written

\* C15: a render call on the Renderer that omits both cell sizes and returns
\* Ok draws, on Blocks, height/16 rows of width/8 glyphs each; on Kitty its
\* first command carries c = width/10 and r = height/20; and the dirty region
\* grows by the rectangle of width/10 by height/20 cells at (col, row).
\* (Fails: Blocks divides by 2 and 4, Kitty sends c=40 and r=10.)
RowHead(k) ==
    << 27, 91 >> \o Dec(call.arg.row + k) \o << 59 >> \o Dec(call.arg.col + 1) \o << 72 >>
\* the characters of a row after its cursor move: every byte that is not a
\* UTF-8 continuation byte begins one
GlyphCount(s, head) ==
    Cardinality({ i \in (Len(head) + 1)..Len(s) : s[i] < 128 \/ s[i] >= 192 })
OmitsCells == IsRender /\ call.arg.width_cells = None /\ call.arg.height_cells = None
C15_DefaultCellEstimates ==
    (OmitsCells /\ result = "Ok") =>
        /\ backend = "Blocks" =>
              /\ Len(written) = call.arg.img.height \div 16
              /\ \A k \in 1..Len(written) :
                    /\ StartsWith(written[k], RowHead(k))
                    /\ GlyphCount(written[k], RowHead(k)) = call.arg.img.width \div 8
        /\ backend = "Kitty" =>
              /\ CallCommands # << >>
              /\ ParamValue(ApcControl(CallCommands[1]), 99) = Dec(call.arg.img.width \div 10)
              /\ ParamValue(ApcControl(CallCommands[1]), 114) = Dec(call.arg.img.height \div 20)
        /\ dirty = mark_region(call.before.dirty, call.arg.col, call.arg.row,
                               call.arg.img.width \div 10, call.arg.img.height \div 20)

\* C16: on Sixel and Blocks a render_image_rgba call whose buffer holds
\* width*height*4 bytes writes the bytes, and returns the result, that
\* render_image gives for the same arguments and the buffer without its
\* bytes 4, 8, 12, ...
AlphaDropped(data) ==
    LET keep == SelectSeq([ i \in 1..Len(data) |-> i ], LAMBDA i : i % 4 # 0)
    IN  [ k \in 1..Len(keep) |-> data[keep[k]] ]
IsExactRgba ==
    /\ call # Idle
    /\ call.op = "render_image_rgba"
    /\ backend \in { "Sixel", "Blocks" }
    /\ call.arg.img.len = call.arg.img.width * call.arg.img.height * 4
C16_RgbaEqualsRgbOfFlattened ==
    IsExactRgba =>
        LET rgb == render_image(AlphaDropped(CallData), call.arg.img.width,
                                call.arg.img.height, call.arg.col, call.arg.row,
                                call.arg.width_cells, call.arg.height_cells,
                                call.arg.w, call.arg.env)
        IN  /\ written = rgb.written
            /\ result = rgb.res
C16_Witness ==
    /\ IsExactRgba
    /\ backend = "Sixel"
    /\ result = "Ok"
    /\ written # << >>
    /\ AlphaDropped(CallData) # SubSeq(CallData, 1, Len(AlphaDropped(CallData)))

\* C17: no step of an ImageRenderer changes its backend or its in_tmux flag,
\* whatever the call and whatever its result.
C17_BackendAndTmuxNeverChange ==
    [][backend' = backend /\ in_tmux' = in_tmux]_vars
C17_Witness ==
    /\ IsRender
    /\ backend = "Kitty"
    /\ in_tmux
    /\ result \notin { "Ok", "Panic" }

\* C18: a render on Kitty that returns Ok right after
\* Renderer::set_unicode_placeholders(enabled) emits Unicode placeholder
\* glyphs (U+10EEEE) exactly when enabled is true, in tmux or not.
\* (Fails: the setter changes nothing; the mode follows in_tmux alone.)
Placeholder == << 244, 142, 187, 174 >>
EmitsPlaceholders == \E k \in 1..Len(written) : StartsWith(written[k], Placeholder)
AfterSetPlaceholders ==
    /\ KittyRenderOk
    /\ call.before.prev.op = "set_unicode_placeholders"
C18_SetterSelectsPlacementMode ==
    AfterSetPlaceholders => (EmitsPlaceholders <=> call.before.prev.enabled)

\* C19: while rectangles have been marked since the region was last clean,
\* the region is dirty, its min_col and min_row are the least col and row
\* marked and its max_col and max_row are the greatest col + width and
\* row + height marked (u16 sums); with none marked, and so after clear, the
\* region is clean with all four bounds zero; and while the region is clean
\* intersects returns false for every rectangle.
MarkedSet == { marked[k] : k \in 1..Len(marked) }
BoundingBox ==
    [ min_col |-> SetMin({ r.col : r \in MarkedSet }),
      min_row |-> SetMin({ r.row : r \in MarkedSet }),
      max_col |-> SetMax({ (r.col + r.width) % 65536 : r \in MarkedSet }),
      max_row |-> SetMax({ (r.row + r.height) % 65536 : r \in MarkedSet }),
      is_dirty |-> TRUE ]
CleanRegion ==
    [ min_col |-> 0, min_row |-> 0, max_col |-> 0, max_row |-> 0, is_dirty |-> FALSE ]
IsDrawCall ==
    call # Idle /\ call.op \in { "render_image", "render_image_rgba", "clear_images" }
FrameBytes == SubSeq(output, frame_start + 1, Len(output))
C20_FrameBatching ==
    /\ output \o buffered = taken
    /\ (IsDrawCall
        /\ call.before.buffered + Len(Concat(written)) < WRITE_BUFFER_CAPACITY) =>
          Len(output) = call.before.output
    /\ (call # Idle /\ call.op = "begin_frame" /\ result = "Ok") =>
          written = << HideCursor >>
                    \o (IF call.arg.clear_graphics /\ backend = "Kitty"
                        THEN << IF in_tmux THEN DeleteCommandInTmux
                                ELSE DeleteCommandBytes >>
                        ELSE << >>)
    /\ (call # Idle /\ call.op = "end_frame" /\ result = "Ok") =>
          /\ buffered = << >>
          /\ output = taken
          /\ written = << ShowCursor >>
          /\ EndsWith(output, ShowCursor)
          /\ frame_start # None => StartsWith(FrameBytes, HideCursor)
          /\ ~dirty.is_dirty
          /\ dirty = CleanRegion
\* a frame on Kitty: begin_frame, an image longer than the buffer, end_frame
C20_Witness ==
    /\ call # Idle
    /\ call.op = "end_frame"
    /\ result = "Ok"
    /\ backend = "Kitty"
    /\ frame_start = 0
    /\ call.before.dirty.is_dirty
    /\ call.before.output > 0
    /\ call.before.buffered > 0
    /\ Len(output) > WRITE_BUFFER_CAPACITY

\* C22: a Kitty render in tmux that returns Ok writes its image-data
\* commands first and nothing but them, at least one; the write after the
\* last of them is the cursor move to (col, row), ESC [ row+1 ; col+1 H; the
\* write after that is the colour ESC [ 38;5;1 m, so no placeholder glyph
\* comes before it; and the last write of the call is ESC [ 39 m.
DataWrites == { k \in 1..Len(written) : IsGraphicsWrite(written[k]) }
GlyphWrites == { k \in 1..Len(written) : StartsWith(written[k], Placeholder) }
IdColourOne == << 27, 91, 51, 56, 59, 53, 59, 49, 109 >>
ColourReset == << 27, 91, 51, 57, 109 >>
PlaceholderRenderOk == KittyRenderOk /\ in_tmux
C22_PlaceholderWriteOrder ==
    PlaceholderRenderOk =>
        LET n == Cardinality(DataWrites)
        IN  /\ n >= 1
            /\ DataWrites = 1..n
            /\ Len(written) >= n + 3
            /\ written[n + 1] = CursorMove
            /\ written[n + 2] = IdColourOne
            /\ \A k \in GlyphWrites : k > n + 2
            /\ written[Len(written)] = ColourReset
            /\ \A k \in 1..(Len(written) - 1) : written[k] # ColourReset
C22_Witness ==
    /\ PlaceholderRenderOk
    /\ Cardinality(DataWrites) >= 2
    /\ Cardinality(GlyphWrites) >= 2

\* C23: in a Kitty render in tmux that returns Ok, the glyph of a cell whose
\* row index is 256 or more carries U+0305 as its row diacritic, and one
\* whose column index is 256 or more carries U+0305 as its column diacritic.
\* (Fails: the index is cut to 8 bits, so row 257 carries table entry 1.)
DefaultDiacritic == << 204, 133 >>      \* U+0305 in UTF-8
C23_DefaultDiacriticPast255 ==
    (PlaceholderRenderOk /\ Len(GridCells) = CallRows * CallCols) =>
        \A r \in 0..(CallRows - 1), c \in 0..(CallCols - 1) :
            LET cell == GridCells[r * CallCols + c + 1]
            IN  /\ r >= 256 => StartsWith(cell, Placeholder \o DefaultDiacritic)
                /\ c >= 256 => EndsWith(cell, DefaultDiacritic)

\* C24: after a Kitty render that returns Ok, animation_initialized is true
\* and animation_image_id is Some(1); in the initial state and after
\* delete_all_images or reset_animation, animation_initialized is false and
\* animation_image_id is None.
\* (Fails: no render assigns animation_image_id; it is None throughout.)
IsReset == call # Idle /\ call.op \in { "delete_all_images", "reset_animation" }
C24_AnimationPairTracksTransmission ==
    /\ KittyRenderOk => animation_initialized /\ animation_image_id = 1
    /\ IsReset => ~animation_initialized /\ animation_image_id = None

\* C25: render_image on Blocks with a buffer of width*height*3 bytes and a
\* good writer returns Ok; with a grid of W columns and H rows, both non-zero,
\* it makes exactly H writes, write cy (from 0) being ESC [ row+cy+1 ; col+1 H
\* followed by the W glyphs of row cy, the glyph of cell (cx, cy) being entry
\* min(((r+g+b)/3)/32, 7) of ' ', light, light, medium, medium, dark, dark,
\* full for the pixel at (cx*(width/W), cy*(height/H)); pure red gives the
\* light shade; with W = 0 or H = 0 it writes nothing.
GlyphTable ==
    << << 32 >>, << 226, 150, 145 >>, << 226, 150, 145 >>, << 226, 150, 146 >>,
       << 226, 150, 146 >>, << 226, 150, 147 >>, << 226, 150, 147 >>, << 226, 150, 136 >> >>
IsBlocksRender ==
    /\ call # Idle
    /\ call.op = "render_image"
    /\ backend = "Blocks"
    /\ call.arg.img.len = call.arg.img.width * call.arg.img.height * 3
    /\ call.arg.w = GoodWriter
GridW == IF call.arg.width_cells = None THEN call.arg.img.width \div 2
         ELSE call.arg.width_cells
GridH == IF call.arg.height_cells = None THEN call.arg.img.height \div 4
         ELSE call.arg.height_cells
PixelAt(x, y) ==
    LET at == (y * call.arg.img.width + x) * 3
    IN  << CallData[at + 1], CallData[at + 2], CallData[at + 3] >>
GlyphOf(p) == GlyphTable[Min(((p[1] + p[2] + p[3]) \div 3) \div 32, 7) + 1]
ExpectedRow(cy) ==
    RowHead(cy + 1)
    \o Concat([ j \in 1..GridW |->
                  GlyphOf(PixelAt((j - 1) * (call.arg.img.width \div GridW),
                                  cy * (call.arg.img.height \div GridH))) ])
C25_BlocksRowsAndGlyphs ==
    /\ IsBlocksRender =>
          /\ result = "Ok"
          /\ IF GridW = 0 \/ GridH = 0
             THEN written = << >>
             ELSE /\ Len(written) = GridH
                  /\ \A cy \in 0..(GridH - 1) :
                        /\ written[cy + 1] = ExpectedRow(cy)
                        /\ GlyphCount(written[cy + 1], RowHead(cy + 1)) = GridW
    /\ GlyphOf(<< 255, 0, 0 >>) = << 226, 150, 145 >>
C25_Witness ==
    /\ IsBlocksRender
    /\ GridW = 3
    /\ GridH = 2
    /\ Len(written) = 2
    /\ written[1] # written[2]
    /\ Cardinality({ GlyphOf(PixelAt(x, 0)) : x \in 0..3 }) >= 2

\* C26: a render on Sixel with an exact buffer and a good writer returns Ok,
\* and its sixel data holds, for the pixel (x, y) of every sixth row y and
\* every column x in order, the colour definition #1;2;R;G;B with
\* R = r*100/255, G = g*100/255, B = b*100/255 (rounded down, in 0..100),
\* followed by #1?.
\* (Fails: the products are u8 products; for a channel value of 3 or more
\* they overflow, which panics or leaves (v*100 mod 256)/255.)
IsSixelRender ==
    /\ IsRender
    /\ backend = "Sixel"
    /\ call.arg.img.len = call.arg.img.width * call.arg.img.height * Channels
    /\ call.arg.w = GoodWriter
Percentage(v) == (v * 100) \div 255
ColourDefinition(p) ==
    << 35, 49, 59, 50, 59 >> \o Dec(Percentage(p[1])) \o << 59 >>
    \o Dec(Percentage(p[2])) \o << 59 >> \o Dec(Percentage(p[3]))
SixelPixelAt(x, y) ==
    LET at == (y * call.arg.img.width + x) * 3
    IN  << SixelCallPixels[at + 1], SixelCallPixels[at + 2], SixelCallPixels[at + 3] >>
ExpectedSixel ==
    << 27, 80, 113 >>
    \o Concat([ k \in 1..DivCeil(call.arg.img.height, 6) |->
                  Concat([ j \in 1..call.arg.img.width |->
                             ColourDefinition(SixelPixelAt(j - 1, (k - 1) * 6))
                             \o << 35, 49, 63 >> ])
                  \o << 36, 45 >> ])
    \o << 27, 92 >>
C26_SixelColourPercentages ==
    IsSixelRender =>
        /\ result = "Ok"
        /\ Len(written) = 2
        /\ Unwrapped(written[2]) = ExpectedSixel
        /\ \A v \in 0..255 : Percentage(v) \in 0..100

\* C27: a step changes the cached tmux pane offset only if it is a
\* refresh_pane_info call on a renderer in tmux; outside tmux the offset is
\* None in every state; refresh_pane_info returns normally and writes
\* nothing whether its query gave an offset or None; and a render leaves the
\* offset as it found it, whatever it returns.
C27_PaneOffsetOnlyRefreshed ==
    [][ /\ tmux_pane_offset' # tmux_pane_offset =>
             in_tmux /\ call'.op = "refresh_pane_info"
        /\ ~in_tmux => tmux_pane_offset = NoOffset /\ tmux_pane_offset' = NoOffset
        /\ call'.op = "refresh_pane_info" => result' = "Ok" /\ written' = << >>
        /\ call'.op \in { "render_image", "render_image_rgba", "delete_all_images",
                          "reset_animation" } => tmux_pane_offset' = tmux_pane_offset
      ]_vars
\* a render in tmux that returns Ok on a renderer whose query gave None
C27_Witness ==
    /\ IsRender
    /\ in_tmux
    /\ tmux_pane_offset = NoOffset
    /\ result = "Ok"
    /\ written # << >>

\* C28: the writes of a render that returns Ok are the writes the same call
\* makes on a renderer of the same backend and in_tmux flag whose line and
\* escape buffers are empty, whatever calls were made on the renderer before.
FreshSteps ==
    CASE backend = "Framebuffer" -> << >>
      [] backend = "Kitty" ->
            KittySteps(encode_base64(CallPng.png), 1, KittyParams(1, CallCols, CallRows),
                       CallCols, CallRows, call.arg.col, call.arg.row, << >>)
      [] backend = "Sixel" ->
            LET sixel_data == encode_sixel(SixelCallPixels, call.arg.img.width,
                                           call.arg.img.height)
            IN  << Step(CursorTo(call.arg.row + 1, call.arg.col + 1)),
                   Step(IF in_tmux THEN TmuxWrap(TmuxEscape(sixel_data)) ELSE sixel_data) >>
      [] backend = "Blocks" ->
            IF GridW = 0 \/ GridH = 0 THEN << >>
            ELSE BlocksSteps(SixelCallPixels, call.arg.img.width, call.arg.img.height,
                             call.arg.col, call.arg.row, GridW, GridH, << >>)
C28_OutputIndependentOfHistory ==
    (IsRender /\ result = "Ok") =>
        \A steps \in { FreshSteps } :
            /\ Len(written) = Len(steps)
            /\ \A k \in 1..Len(steps) : written[k] = steps[k].bytes
\* a render that found the buffers holding what an earlier, different render
\* left in them
C28_Witness ==
    /\ IsRender
    /\ result = "Ok"
    /\ written # << >>
    /\ backend = "Kitty"
    /\ call.before.animation_initialized
    /\ escape_buffer # KittyParams(1, 2, 3)
    /\ call.arg.width_cells = 2
    /\ call.arg.height_cells = 1

-----------------------------------------------------------------------------
(* FocusManager navigation and consistency *)

\* the IDs of the focusable components of f, in focus order
FocusableIds(f) ==
    LET focusable == SelectSeq(f.focus_order, LAMBDA info : info.focusable)
    IN  [ k \in 1..Len(focusable) |-> focusable[k].id ]

\* where the focused component of f stands in FocusableIds(f), 0 if it does not
FocusedAt(f) ==
    LET ids == FocusableIds(f)
        at == { k \in 1..Len(ids) : f.focused_id = Some(ids[k]) }
    IN  IF at = { } THEN 0 ELSE SetMin(at)

InTabOrder(f) ==
    \A i, j \in 1..Len(f.focus_order) :
        i < j => f.focus_order[i].tab_index <= f.focus_order[j].tab_index

\* C21: focus_next and focus_prev walk the focusable components in tab order and
\* skip the others; with wrap_around, focus_next at the last focusable component
\* moves to the first and focus_prev at the first moves to the last; without it
\* they return false there and leave the focused component unchanged.
C21_NavigationInTabOrder ==
    call.op \in { "focus_next", "focus_prev" } =>
        \A ids \in { FocusableIds(call.before) }, at \in { FocusedAt(call.before) } :
            LET n == Len(ids)
                forward == call.op = "focus_next"
                to(k) == result = "true" /\ focus.focused_id = Some(ids[k])
                stays == result = "false" /\ focus.focused_id = call.before.focused_id
            IN  /\ InTabOrder(call.before)
                /\ result = "true" => FocusedAt(focus) > 0
                /\ at > 0 /\ forward /\ at < n => to(at + 1)
                /\ at > 0 /\ ~forward /\ at > 1 => to(at - 1)
                /\ at > 0 /\ forward /\ at = n =>
                       IF call.before.wrap_around THEN to(1) ELSE stays
                /\ at > 0 /\ ~forward /\ at = 1 =>
                       IF call.before.wrap_around THEN to(n) ELSE stays

\* focus_next wrapped from the last focusable component to the first, which is not
\* the first registered component: an unfocusable one before it was skipped
C21_Witness ==
    /\ call.op = "focus_next"
    /\ call.before.wrap_around
    /\ Len(FocusableIds(call.before)) >= 2
    /\ FocusedAt(call.before) = Len(FocusableIds(call.before))
    /\ ~call.before.focus_order[1].focusable
    /\ result = "true"
    /\ FocusedAt(focus) = 1

IsFocusCall ==
    call.op \in { "register", "register_with_info", "unregister", "focus", "blur",
                  "focus_next", "focus_prev", "move_focus", "set_wrap_around" }

\* C29: after any sequence of FocusManager calls the focused ID, if any, names a
\* registered component whose focusable flag is true, and id_to_index maps every
\* registered ID to its position in focus_order.
C29_FocusedIsRegisteredAndFocusable ==
    /\ focus.focused_id # NoFocus =>
           \E i \in 1..Len(focus.focus_order) :
               /\ focus.focus_order[i].id = focus.focused_id[1]
               /\ focus.focus_order[i].focusable
    /\ DOMAIN focus.id_to_index = { focus.focus_order[i].id : i \in 1..Len(focus.focus_order) }
    /\ \A i \in 1..Len(focus.focus_order) :
           focus.id_to_index[focus.focus_order[i].id] = i - 1

-----------------------------------------------------------------------------
(* ScrollableView content resizing *)

\* C30: set_content_size(w, h) keeps an offset that is within the new content
\* bounds and reduces an offset beyond them to the bound.
C30_SetContentSizeClampsOffset ==
    call.op = "set_content_size" =>
        /\ scroll.content_width = call.arg[1]
        /\ scroll.content_height = call.arg[2]
        /\ scroll.offset_x = Min(call.before.offset_x, call.arg[1])
        /\ scroll.offset_y = Min(call.before.offset_y, call.arg[2])

====
